---- MODULE Spec2Model ----
(***************************************************************************)
(* A model of the ascap-finder-pro search function (the Deno edge function *)
(* supabase/functions/ascap-search/index.ts): the name formatter, the      *)
(* pattern extraction engine (parseASCAPResults, parseBMIResults), the     *)
(* real-name resolver (extractRealNameFromWikipedia) and the request       *)
(* handler that routes a search to the source adapters.                    *)
(*                                                                         *)
(* Text is modelled as TLA+ strings over ASCII; a character is a string of *)
(* length one.  The regular expressions of the source are translated to    *)
(* syntax trees and run by a backtracking matcher with JavaScript's        *)
(* leftmost, priority-ordered semantics.                                   *)
(***************************************************************************)
EXTENDS Integers, Sequences, FiniteSets, TLC

VARIABLES
    pc,           \* position of the operation being run
    pro,          \* parse: the repertory whose engine runs ("ASCAP" | "BMI")
    searchType,   \* parse: the category parameter; handler: the request's searchType
    markdown,     \* parse: the markdown parameter; resolver: wikiMarkdown
    html,         \* parse: the html parameter
    jsExtracted,  \* parse: the script-extracted list
    results,      \* parse: the local `results` array
    seen,         \* parse: the local `seen` set
    ran,          \* parse / resolver: stages (pattern groups) executed so far
    ret,          \* parse / resolver: the value returned; handler: realName
    stageArg,     \* resolver: the stageName argument of the call
    query,        \* handler: the request's query
    apiKey,       \* handler: Deno.env.get('FIRECRAWL_API_KEY') ("" when unset)
    calls,        \* handler: the state of each adapter call (a promise)
    requests,     \* handler: the requests issued to the rendering provider
    response,     \* handler: the response sent (<<>> until one is)
    formatted,    \* formatter: an input and the results of formatting it in turn
    table,        \* store: the ids of the rows of public.saved_ipis
    nextRow,      \* store: the rows inserted so far, plus one
    savedIPIs,    \* store: the list the observed client shows (the query's data)
    listQuery,    \* store: the observed client's list query (the latest fetch)
    deleteMutation, \* store: the observed client's delete mutation
    deletedIds,   \* store: the ids of the observed client's successful deletes
    songInfo,     \* form: the song information (its title)
    writers,      \* form: the writers, each with at most one nested publisher
    isSending,    \* form: a send is under way
    toast,        \* form: the toast shown by the last handler run ("" if none)
    invocations,  \* form: the calls of the send-splitsheet function, each pending,
                  \*       sent or failed
    nextId,       \* form: the ids handed out by crypto.randomUUID() so far, plus one
    removed,      \* form: the ids of the publishers of the writers removed so far
    mailPc,       \* notifier: where the handler is
    mailWriters,  \* notifier: the writers of the request body
    recipients,   \* notifier: the recipient list built from them
    emailResponses, \* notifier: per recipient, what became of resend.emails.send
    outbox,       \* notifier: the addresses of the send requests made to the provider
    reply,        \* notifier: the response of the handler
    writerResults,    \* page: the results of the writer section
    publisherResults, \* page: the results of the publisher section
    performerResults, \* page: the results of the performer section
    selectedResults,  \* page: the keys of the selected results
    saveCalls,    \* page: the item lists passed to saveIPIs, in order
    isSaving,     \* page: the save mutation is pending
    exported,     \* page / collection view: the data of the last export
    sectionType,  \* section: the `type` prop of the SearchSection
    typed,        \* section: the `query` state (the text of the input)
    isLoading,    \* section: the `isLoading` state
    searches,     \* section: the calls of ascapApi.search, each with its query
    shown,        \* section: the query whose results were last passed to
                  \*          onResultsChange (<<>> before any)
    performerRealName, \* section: the `performerRealName` state (<<>> for null)
    sectionToast, \* section: the toast of the last handler run ("" if none)
    viewRows,     \* collection view: savedIPIs, the rows the hook returns
    selectedIds,  \* collection view: the `selectedIds` state
    filterType,   \* collection view: the `filterType` state
    deleteCalls,  \* collection view: the id lists passed to deleteIPIs, in order
    isDeleting    \* collection view: the delete mutation is pending

parseVars == <<pro, markdown, html, jsExtracted, results, seen>>
resolveVars == <<stageArg>>
searchVars == <<query, apiKey, calls, requests, response>>
formatVars == <<formatted>>
storeVars == <<table, nextRow, savedIPIs, listQuery, deleteMutation, deletedIds>>
formVars == <<songInfo, writers, isSending, toast, invocations, nextId, removed>>
mailVars == <<mailPc, mailWriters, recipients, emailResponses, outbox, reply>>
selectVars ==
    <<writerResults, publisherResults, performerResults, selectedResults,
      saveCalls, isSaving>>
sectionVars ==
    <<sectionType, typed, isLoading, searches, shown, performerRealName, sectionToast>>
viewVars == <<viewRows, selectedIds, filterType, deleteCalls, isDeleting>>
pageVars == <<selectVars, sectionVars, viewVars, exported>>
laterVars == <<formatVars, storeVars, formVars, mailVars, pageVars>>
functionVars == <<pc, searchType, ran, ret, parseVars, resolveVars, searchVars>>
vars == <<pc, searchType, ran, ret, parseVars, resolveVars, searchVars, laterVars>>

\* the variables of the search function, while another component runs
SearchIdle ==
    /\ pc = "" /\ pro = "" /\ searchType = "" /\ markdown = "" /\ html = ""
    /\ jsExtracted = <<>> /\ results = <<>> /\ seen = {} /\ ran = {} /\ ret = <<>>
    /\ stageArg = "" /\ query = "" /\ apiKey = ""
    /\ calls = <<>> /\ requests = <<>> /\ response = <<>>

\* the variables of the other components, while the search function runs
FormatIdle == formatted = <<>>

StoreIdle ==
    /\ table = {} /\ nextRow = 0 /\ savedIPIs = <<>> /\ listQuery = <<>>
    /\ deleteMutation = <<>> /\ deletedIds = {}

FormIdle ==
    /\ songInfo = <<>> /\ writers = <<>> /\ isSending = FALSE /\ toast = ""
    /\ invocations = <<>> /\ nextId = 0 /\ removed = {}

MailIdle ==
    /\ mailPc = "" /\ mailWriters = <<>> /\ recipients = <<>>
    /\ emailResponses = <<>> /\ outbox = <<>> /\ reply = <<>>

SelectIdle ==
    /\ writerResults = <<>> /\ publisherResults = <<>> /\ performerResults = <<>>
    /\ selectedResults = {} /\ saveCalls = <<>> /\ isSaving = FALSE

SectionIdle ==
    /\ sectionType = "" /\ typed = "" /\ isLoading = FALSE /\ searches = <<>>
    /\ shown = <<>> /\ performerRealName = <<>> /\ sectionToast = ""

ViewIdle ==
    /\ viewRows = <<>> /\ selectedIds = {} /\ filterType = ""
    /\ deleteCalls = <<>> /\ isDeleting = FALSE

PageIdle == SelectIdle /\ SectionIdle /\ ViewIdle /\ exported = <<>>

LaterIdle == FormatIdle /\ StoreIdle /\ FormIdle /\ MailIdle /\ PageIdle

-----------------------------------------------------------------------------
(* A value computed first and then used under a name: a const declaration *)
(* followed by the statements that use it (the test has v evaluated before *)
(* Body is)                                                                 *)

With(v, Body(_)) == IF v = v THEN Body(v) ELSE v

-----------------------------------------------------------------------------
(* Characters and strings *)

\* String.prototype.substring on 1-based inclusive positions, clamped to s
Sub(s, a, b) ==
    LET lo == IF a < 1 THEN 1 ELSE a
        hi == IF b > Len(s) THEN Len(s) ELSE b
    IN  IF lo > hi THEN "" ELSE SubSeq(s, lo, hi)

\* String.prototype.charAt ("" out of range)
CharAt(s, i) == Sub(s, i, i)

UpperStr == "ABCDEFGHIJKLMNOPQRSTUVWXYZ"
LowerStr == "abcdefghijklmnopqrstuvwxyz"
DigitStr == "0123456789"

CharsOf(s) == {CharAt(s, i) : i \in 1..Len(s)}

Upper == CharsOf(UpperStr)
Lower == CharsOf(LowerStr)
Letter == Upper \cup Lower
Digit == CharsOf(DigitStr)
\* \s of the source's regular expressions, over the model's alphabet
Space == {" ", "\n", "\t"}
\* \w
WordChar == Letter \cup Digit \cup {"_"}

IndexIn(str, c) == CHOOSE i \in 1..Len(str) : CharAt(str, i) = c

\* the one character of the model's alphabet outside ASCII: U+00DF (LATIN SMALL
\* LETTER SHARP S), written "~" here; it is no letter of [A-Za-z], no \w and no
\* \s, toLowerCase leaves it alone and toUpperCase turns it into "SS"
Eszett == "~"

\* String.prototype.toLowerCase / toUpperCase on one character
LowerChar(c) == IF c \in Upper THEN CharAt(LowerStr, IndexIn(UpperStr, c)) ELSE c
UpperChar(c) ==
    IF c \in Lower THEN CharAt(UpperStr, IndexIn(LowerStr, c))
    ELSE IF c = Eszett THEN "SS" ELSE c

\* the characters lo..hi of s, each mapped (the recursion is by halves)
RECURSIVE MapChars(_, _, _, _)
MapChars(s, lo, hi, lower) ==
    IF lo > hi THEN ""
    ELSE IF lo = hi
    THEN (IF lower THEN LowerChar(CharAt(s, lo)) ELSE UpperChar(CharAt(s, lo)))
    ELSE MapChars(s, lo, (lo + hi) \div 2, lower)
             \o MapChars(s, (lo + hi) \div 2 + 1, hi, lower)

toLowerCase(s) == MapChars(s, 1, Len(s), TRUE)
toUpperCase(s) == MapChars(s, 1, Len(s), FALSE)

\* String.prototype.includes
includes(s, sub) ==
    \E i \in 1..(Len(s) - Len(sub) + 1) : Sub(s, i, i + Len(sub) - 1) = sub

\* the positions of s that hold no white space
Inked(s) == {i \in 1..Len(s) : CharAt(s, i) \notin Space}

\* String.prototype.trim
trim(s) ==
    With(Inked(s), LAMBDA P :
        IF P = {} THEN ""
        ELSE Sub(s, CHOOSE i \in P : \A j \in P : i <= j,
                    CHOOSE i \in P : \A j \in P : i >= j))

-----------------------------------------------------------------------------
(* Regular expressions: syntax trees *)

Node(t, s, a, lo, hi, g) == [t |-> t, s |-> s, a |-> a, lo |-> lo, hi |-> hi, g |-> g]

Cls(S) == Node("cls", S, <<>>, 0, 0, TRUE)         \* [...]
NCls(S) == Node("ncls", S, <<>>, 0, 0, TRUE)       \* [^...]
Dot == NCls({"\n"})                                \* .
AnyChar == NCls({})                                \* [\s\S]
WordB == Node("wordb", {}, <<>>, 0, 0, TRUE)       \* \b
Bol == Node("bol", {}, <<>>, 0, 0, TRUE)           \* ^ (no m flag)
Eol == Node("eol", {}, <<>>, 0, 0, TRUE)           \* $ (no m flag)
Cat(a) == Node("seq", {}, a, 0, 0, TRUE)           \* concatenation
Alt(a) == Node("alt", {}, a, 0, 0, TRUE)           \* a1|a2|...
Rep(n, lo, hi) == Node("rep", {}, <<n>>, lo, hi, TRUE)    \* greedy n{lo,hi}
RepLazy(n, lo, hi) == Node("rep", {}, <<n>>, lo, hi, FALSE) \* lazy n{lo,hi}?
Star(n) == Rep(n, 0, -1)                           \* hi < 0: unbounded
Plus(n) == Rep(n, 1, -1)
\* n? : n{0,1} over a one-character node; else the alternatives of n, or n
\* itself, followed by the empty alternative (the same matches in the same order)
Opt(n) ==
    IF n.t \in {"cls", "ncls"} THEN Rep(n, 0, 1)
    ELSE IF n.t = "alt" THEN Alt(n.a \o <<Cat(<<>>)>>)
    ELSE Alt(<<n, Cat(<<>>)>>)

\* a literal, case-sensitive / under the i flag (one character is a class)
Lit(str) ==
    IF Len(str) = 1 THEN Cls({str}) ELSE Node("lit", {}, str, 0, 0, FALSE)
LitI(str) ==
    IF Len(str) = 1 THEN Cls({LowerChar(str), UpperChar(str)})
    ELSE Node("lit", {}, str, 0, 0, TRUE)

-----------------------------------------------------------------------------
(* Regular expressions: the matcher.  Ends(n, s, i) is the sequence of     *)
(* positions at which a match of n that starts at position i of s can end, *)
(* in the order a backtracking matcher tries them.                         *)

\* the least element of a non-empty set of integers
Least(S) == CHOOSE x \in S : \A y \in S : x <= y

\* the places <<j, m, qs[j][m]>> of a sequence of sequences
Places(qs) ==
    UNION {{<<j, m, qs[j][m]>> : m \in 1..Len(qs[j])} : j \in 1..Len(qs)}

\* place p comes before place q when the sequences are put one after the other
Before(p, q) == p[1] < q[1] \/ (p[1] = q[1] /\ p[2] < q[2])

\* the sequences of qs one after the other, each value at its first place only
Merge(qs) ==
    IF qs = <<>> THEN <<>>
    ELSE IF Len(qs) = 1 THEN qs[1]
    ELSE LET P == Places(qs)
             first == {p \in P : \A q \in P : q[3] = p[3] => ~Before(q, p)}
         IN  [r \in 1..Cardinality(first) |->
                 (CHOOSE p \in first :
                      Cardinality({q \in first : Before(q, p)}) = r - 1)[3]]

IsWordAt(s, i) == i >= 1 /\ i <= Len(s) /\ CharAt(s, i) \in WordChar

\* whether the literal of node n stands at position i of s
LitAt(n, s, i) ==
    /\ i + Len(n.a) - 1 <= Len(s)
    /\ IF n.g
       THEN \A k \in 1..Len(n.a) :
                LowerChar(CharAt(s, i + k - 1)) = LowerChar(CharAt(n.a, k))
       ELSE Sub(s, i, i + Len(n.a) - 1) = n.a

\* whether the one-character node n matches position j of s (j in 1..Len(s))
CharMatches(n, s, j) == (SubSeq(s, j, j) \in n.s) = (n.t = "cls")

\* the first position at or after i whose character the one-character node n
\* does not match (Len(s) + 1 when there is none)
RunEnd(n, s, i) ==
    IF n.t = "ncls" /\ n.s = {} THEN Len(s) + 1
    ELSE IF \A j \in i..Len(s) : CharMatches(n, s, j) THEN Len(s) + 1
    ELSE CHOOSE j \in i..Len(s) :
             ~CharMatches(n, s, j) /\ \A k \in i..(j - 1) : CharMatches(n, s, k)

\* the ends of n{lo,hi} over a one-character node whose run of matching
\* characters from i stops at q: the longest first when greedy
Span(n, i, q) ==
    IF q < i + n.lo THEN <<>>
    ELSE LET top == IF n.hi < 0 \/ i + n.hi > q THEN q ELSE i + n.hi
             low == i + n.lo
         IN  [k \in 1..(top - low + 1) |-> IF n.g THEN top - k + 1 ELSE low + k - 1]

\* n{lo,hi} over a one-character node: the run of matching characters decides
CharRepEnds(n, s, i) == Span(n, i, RunEnd(n.a[1], s, i))

\* the ends `more` of the further iterations of a repetition and the end i of
\* stopping here, in the order the repetition tries them
MergeStop(more, i, canStop, greedy) ==
    IF more = <<>> THEN (IF canStop THEN <<i>> ELSE <<>>)
    ELSE Merge(IF greedy THEN more \o <<IF canStop THEN <<i>> ELSE <<>> >>
               ELSE <<IF canStop THEN <<i>> ELSE <<>> >> \o more)

RECURSIVE Ends(_, _, _)
RECURSIVE SeqEnds(_, _, _, _)
RECURSIVE RepEnds(_, _, _, _)

Ends(n, s, i) ==
    CASE n.t = "cls" ->
            IF i <= Len(s) /\ SubSeq(s, i, i) \in n.s THEN <<i + 1>> ELSE <<>>
      [] n.t = "ncls" ->
            IF i <= Len(s) /\ SubSeq(s, i, i) \notin n.s THEN <<i + 1>> ELSE <<>>
      [] n.t = "lit" -> IF LitAt(n, s, i) THEN <<i + Len(n.a)>> ELSE <<>>
      [] n.t = "wordb" ->
            IF IsWordAt(s, i - 1) # IsWordAt(s, i) THEN <<i>> ELSE <<>>
      [] n.t = "bol" -> IF i = 1 THEN <<i>> ELSE <<>>
      [] n.t = "eol" -> IF i = Len(s) + 1 THEN <<i>> ELSE <<>>
      [] n.t = "seq" -> SeqEnds(n.a, 1, s, <<i>>)
      [] n.t = "alt" -> Merge([k \in 1..Len(n.a) |-> Ends(n.a[k], s, i)])
      [] n.t = "rep" ->
            IF n.a[1].t \in {"cls", "ncls"} THEN CharRepEnds(n, s, i)
            ELSE RepEnds(n, 0, s, i)

\* the ends of a[k], a[k+1], .. matched one after the other from the starts
SeqEnds(a, k, s, starts) ==
    IF starts = <<>> \/ k > Len(a) THEN starts
    ELSE SeqEnds(a, k + 1, s,
                 Merge([j \in 1..Len(starts) |-> Ends(a[k], s, starts[j])]))

\* the ends of n{lo,hi} when c iterations have been matched up to i: a greedy
\* repetition tries one more iteration before it stops, a lazy one stops first
\* (an iteration that matches the empty string is not taken)
RepEnds(n, c, s, i) ==
    LET nexts == IF n.hi < 0 \/ c < n.hi
                 THEN SelectSeq(Ends(n.a[1], s, i), LAMBDA e : e > i)
                 ELSE <<>>
    IN  MergeStop([j \in 1..Len(nexts) |-> RepEnds(n, c + 1, s, nexts[j])],
                  i, c >= n.lo, n.g)

(* A regular expression with capture groups is a sequence of parts, some   *)
(* of which are the groups.  MatchAt gives the boundaries of the parts     *)
(* k..n in the first match of them starting at i, <<i, e_k, .., e_n>>      *)
(* (part j spans b[j]..b[j+1]-1), or <<>> when there is no match.          *)
\* the boundaries of a match that starts at i and goes on with the first of
\* `rests` that is one
Pick(i, rests) ==
    IF rests = <<>> THEN <<>>
    ELSE LET J == {j \in 1..Len(rests) : rests[j] # <<>>}
         IN  IF J = {} THEN <<>> ELSE <<i>> \o rests[Least(J)]

RECURSIVE MatchAt(_, _, _, _)
MatchAt(parts, k, s, i) ==
    IF k > Len(parts) THEN <<i>>
    ELSE LET ends == Ends(parts[k], s, i)
         IN  Pick(i, [j \in 1..Len(ends) |-> MatchAt(parts, k + 1, s, ends[j])])

\* the matches that start at the positions from `from` on, one per position
MatchesFrom(parts, s, from) ==
    {MatchAt(parts, 1, s, i) : i \in from..(Len(s) + 1)} \ {<<>>}

\* the match of M that starts first
Leftmost(M) == CHOOSE m \in M : \A x \in M : m[1] <= x[1]

\* RegExp.prototype.exec from lastIndex `from` (1-based): boundaries or <<>>
Search(parts, s, from) ==
    LET M == MatchesFrom(parts, s, from)
    IN  IF M = {} THEN <<>> ELSE Leftmost(M)

\* the text of part k of a match m
Group(s, m, k) == Sub(s, m[k], m[k + 1] - 1)

\* where the exec loop resumes after match m (past an empty match)
Resume(m) == IF m[Len(m)] > m[1] THEN m[Len(m)] ELSE m[1] + 1

\* the first n matches the exec loop visits from `from` on, among the matches
\* M (the recursion is by halves of n)
RECURSIVE Walk(_, _, _)
Walk(M, from, n) ==
    IF n <= 1
    THEN LET C == {m \in M : m[1] >= from}
         IN  IF C = {} THEN <<>> ELSE <<Leftmost(C)>>
    ELSE LET left == Walk(M, from, n \div 2)
         IN  IF Len(left) < n \div 2 THEN left
             ELSE left \o Walk(M, Resume(left[Len(left)]), n - n \div 2)

\* every match of a g-flagged expression, as the exec loop of the source visits
\* them (each search resumes at the end of the previous match)
AllMatches(parts, s, from) ==
    LET M == MatchesFrom(parts, s, from)
    IN  Walk(M, from, Cardinality(M))

\* the k-th smallest element of a finite set of integers
KthOf(S, k) == CHOOSE x \in S : Cardinality({y \in S : y < x}) = k - 1

\* String.prototype.split with a one-character separator
Split(s, sep) ==
    LET P == {i \in 1..Len(s) : CharAt(s, i) = sep}
        n == Cardinality(P)
        pos(k) == IF k = 0 THEN 0 ELSE IF k = n + 1 THEN Len(s) + 1 ELSE KthOf(P, k)
    IN  [k \in 1..(n + 1) |-> Sub(s, pos(k - 1) + 1, pos(k) - 1)]

\* Array.prototype.join
RECURSIVE JoinRange(_, _, _, _)
JoinRange(words, sep, lo, hi) ==
    IF lo > hi THEN ""
    ELSE IF lo = hi THEN words[lo]
    ELSE JoinRange(words, sep, lo, (lo + hi) \div 2) \o sep
             \o JoinRange(words, sep, (lo + hi) \div 2 + 1, hi)

Join(words, sep) == JoinRange(words, sep, 1, Len(words))

\* String.prototype.replace with a g-flagged expression and a fixed replacement:
\* the text before each match followed by the replacement, then the rest
ReplaceAll(parts, s, rep) ==
    With(AllMatches(parts, s, 1), LAMBDA ms :
        Join([k \in 1..(Len(ms) + 1) |->
                 IF k > Len(ms)
                 THEN Sub(s, IF k = 1 THEN 1 ELSE ms[k - 1][Len(ms[k - 1])], Len(s))
                 ELSE Sub(s, IF k = 1 THEN 1 ELSE ms[k - 1][Len(ms[k - 1])],
                          ms[k][1] - 1) \o rep], ""))

\* String.prototype.replace with an expression without the g flag
ReplaceFirst(parts, s, rep) ==
    With(Search(parts, s, 1), LAMBDA m :
        IF m = <<>> THEN s
        ELSE Sub(s, 1, m[1] - 1) \o rep \o Sub(s, m[Len(m)], Len(s)))

-----------------------------------------------------------------------------
(* Name Formatter *)

\* word.charAt(0).toUpperCase() + word.slice(1).toLowerCase()
TitleWord(word) ==
    toUpperCase(Sub(word, 1, 1)) \o toLowerCase(Sub(word, 2, Len(word)))

\* name.replace(/\s+/g, ' ').trim().split(' ').map(...).join(' ')
formatName(name) ==
    With(Split(trim(ReplaceAll(<<Plus(Cls(Space))>>, name, " ")), " "),
         LAMBDA words : Join([k \in 1..Len(words) |-> TitleWord(words[k])], " "))

-----------------------------------------------------------------------------
(* Pattern Extraction Engine: shared pieces *)

\* results.slice(0, 50)
MaxResults == 50

\* a faulty variant of Slice that keeps everything
SliceNothing(q, n) == q

Slice(q, n) == IF Len(q) <= n THEN q ELSE SubSeq(q, 1, n)

\* the locals `results` and `seen` of a parse function
EmptySt == [results |-> <<>>, seen |-> {}]

\* a faulty variant of PushIfNew that never consults `seen`
PushAlways(st, name, ipi, type, source) ==
    [results |-> Append(st.results,
                        [name |-> formatName(name), ipiNumber |-> ipi,
                         type |-> type, pro |-> source]),
     seen |-> st.seen \cup {ipi}]

\* if (!seen.has(ipi)) { seen.add(ipi); results.push({name: formatName(name), ...}) }
PushIfNew(st, name, ipi, type, source) ==
    IF ipi \in st.seen THEN st
    ELSE [results |-> Append(st.results,
                             [name |-> formatName(name), ipiNumber |-> ipi,
                              type |-> type, pro |-> source]),
          seen |-> st.seen \cup {ipi}]

\* the body of a stage's loop run over candidates lo..hi, in order (the
\* candidates are those that pass the stage's own test; the recursion is by
\* halves, and the test on the first half's result has it evaluated before
\* the second half starts, which keeps the evaluation shallow)
RECURSIVE PushRange(_, _, _, _, _, _)
PushRange(st, cands, lo, hi, type, source) ==
    IF lo > hi THEN st
    ELSE IF lo = hi THEN PushIfNew(st, cands[lo].name, cands[lo].ipi, type, source)
    ELSE LET mid == (lo + hi) \div 2
             left == PushRange(st, cands, lo, mid, type, source)
         IN  IF Len(left.results) < 0 THEN st
             ELSE PushRange(left, cands, mid + 1, hi, type, source)

PushAll(st, cands, type, source) == PushRange(st, cands, 1, Len(cands), type, source)

\* name.match(/^\d+$/)
IsNumeric(name) == Len(name) > 0 /\ \A i \in 1..Len(name) : CharAt(name, i) \in Digit

\* name.match(/^IPI/i)
StartsWithIPI(name) == toLowerCase(Sub(name, 1, 3)) = "ipi"

\* [A-Za-z\s,.'()-]
NameChar == Letter \cup Space \cup {",", ".", "'", "(", ")", "-"}

\* (\d{9,11})
IpiDigits == Rep(Cls(Digit), 9, 11)

\* {name: match[gName].trim(), ipi: match[gIpi]} for every match of the exec loop
Candidates(parts, text, gName, gIpi) ==
    With(AllMatches(parts, text, 1), LAMBDA ms :
        [k \in 1..Len(ms) |-> [name |-> trim(Group(text, ms[k], gName)),
                               ipi |-> Group(text, ms[k], gIpi)]])

\* Stage 1: the script-extracted entries; item.ipi && item.name
JsAccept(item) == item.ipi # "" /\ item.name # ""

JsStage(st, js, type, source) ==
    PushAll(st, SelectSeq(js, JsAccept), type, source)

\* a faulty variant of JsShortCircuit that never returns early
NeverShortCircuit(st) == FALSE

\* if (results.length > 0) { return results.slice(0, 50); }
JsShortCircuit(st) == Len(st.results) > 0

\* /\|\s*([^|]+?)\s*\|\s*(\d{9,11})\s*\|/g
tablePattern ==
    << Cat(<<Lit("|"), Star(Cls(Space))>>),
       RepLazy(NCls({"|"}), 1, -1),
       Cat(<<Star(Cls(Space)), Lit("|"), Star(Cls(Space))>>),
       IpiDigits,
       Cat(<<Star(Cls(Space)), Lit("|")>>) >>

-----------------------------------------------------------------------------
(* parseBMIResults *)

\* /([A-Z][A-Za-z\s,.'()-]+?)\s*IPI[:#\s]*(\d{9,11})/gi
ipiPattern ==
    << Cat(<<Cls(Letter), RepLazy(Cls(NameChar), 1, -1)>>),
       Cat(<<Star(Cls(Space)), LitI("IPI"), Star(Cls({":", "#"} \cup Space))>>),
       IpiDigits >>

BmiIpiAccept(c) == Len(c.name) > 2 /\ Len(c.name) < 80 /\ ~IsNumeric(c.name)

BmiIpiStage(st, md, type) ==
    PushAll(st, SelectSeq(Candidates(ipiPattern, md, 1, 3), BmiIpiAccept), type, "BMI")

BmiTableAccept(c) ==
    /\ Len(c.name) > 2 /\ Len(c.name) < 80
    /\ ~IsNumeric(c.name) /\ ~StartsWithIPI(c.name)

BmiTableStage(st, md, type) ==
    PushAll(st, SelectSeq(Candidates(tablePattern, md, 2, 4), BmiTableAccept), type, "BMI")

\* function parseBMIResults(markdown, html, searchType, jsExtracted)
parseBMIResults(md, htm, type, js) ==
    With(JsStage(EmptySt, js, type, "BMI"), LAMBDA s1 :
        IF JsShortCircuit(s1) THEN Slice(s1.results, MaxResults)
        ELSE With(BmiIpiStage(s1, md, type), LAMBDA s2 :
                 Slice(BmiTableStage(s2, md, type).results, MaxResults)))

-----------------------------------------------------------------------------
(* parseASCAPResults *)

\* /<tr[^>]*>[\s\S]*?<td[^>]*>([^<]+)<\/td>[\s\S]*?<td[^>]*>(\d{9,11})<\/td>[\s\S]*?<\/tr>/gi
tableRowPattern ==
    << Cat(<<LitI("<tr"), Star(NCls({">"})), Lit(">"), RepLazy(AnyChar, 0, -1),
             LitI("<td"), Star(NCls({">"})), Lit(">")>>),
       Plus(NCls({"<"})),
       Cat(<<LitI("</td>"), RepLazy(AnyChar, 0, -1),
             LitI("<td"), Star(NCls({">"})), Lit(">")>>),
       IpiDigits,
       Cat(<<LitI("</td>"), RepLazy(AnyChar, 0, -1), LitI("</tr>")>>) >>

AscapRowAccept(c) == Len(c.name) > 1 /\ Len(c.name) < 100 /\ ~IsNumeric(c.name)

AscapHtmlStage(st, htm, type) ==
    PushAll(st, SelectSeq(Candidates(tableRowPattern, htm, 2, 4), AscapRowAccept),
            type, "ASCAP")

\* /([A-Z][A-Za-z\s,.'()-]+?)\s*[|\-<en dash>]\s*(\d{9,11})/g
\* (the en dash of the class is outside the model's ASCII alphabet)
mdNameIpiPattern ==
    << Cat(<<Cls(Upper), RepLazy(Cls(NameChar), 1, -1)>>),
       Cat(<<Star(Cls(Space)), Cls({"|", "-"}), Star(Cls(Space))>>),
       IpiDigits >>

AscapMdAccept(c) == Len(c.name) > 1 /\ Len(c.name) < 100

AscapMdDelimStage(st, md, type) ==
    PushAll(st, SelectSeq(Candidates(mdNameIpiPattern, md, 1, 3), AscapMdAccept),
            type, "ASCAP")

AscapTableAccept(c) ==
    /\ Len(c.name) > 1 /\ Len(c.name) < 100
    /\ ~IsNumeric(c.name) /\ ~StartsWithIPI(c.name)

AscapMdTableStage(st, md, type) ==
    PushAll(st, SelectSeq(Candidates(tablePattern, md, 2, 4), AscapTableAccept),
            type, "ASCAP")

\* /([A-Z][a-zA-Z\s,.'()-]{2,50})/
lineNamePattern == << Cat(<<Cls(Upper), Rep(Cls(NameChar), 2, 50)>>) >>

\* the capitalized-word span of a line ("" when the line has none);
\* !nameMatch[1].match(/^\d/) is part of the source's test
SpanOf(line) ==
    With(Search(lineNamePattern, line, 1), LAMBDA m :
        IF m # <<>> /\ CharAt(Group(line, m, 1), 1) \notin Digit
        THEN trim(Group(line, m, 1)) ELSE "")

\* the name the fallback takes for line i (1-based): the span on the line when the
\* name pattern matches it (a span is never empty), else the span on the previous
\* line
LineName(lines, i) ==
    With(SpanOf(lines[i]), LAMBDA span :
        IF span # "" THEN span
        ELSE IF i > 1 THEN SpanOf(lines[i - 1]) ELSE "")

\* the candidate of line i, with ipi "" when the line holds no 9-11 digit run
LineCandidate(lines, i) ==
    With(Search(<<IpiDigits>>, lines[i], 1), LAMBDA im :
        IF im = <<>> THEN [name |-> "", ipi |-> ""]
        ELSE [name |-> LineName(lines, i), ipi |-> Group(lines[i], im, 1)])

LineAccept(c) == c.ipi # "" /\ c.name # "" /\ Len(c.name) > 2 /\ Len(c.name) < 100

AscapLineStage(st, md, type) ==
    With(Split(md, "\n"), LAMBDA lines :
        PushAll(st, SelectSeq([i \in 1..Len(lines) |-> LineCandidate(lines, i)],
                              LineAccept),
                type, "ASCAP"))

\* if (results.length === 0) { ...line fallback... }
LineFallbackDue(st) == Len(st.results) = 0

\* function parseASCAPResults(markdown, html, searchType, jsExtracted)
parseASCAPResults(md, htm, type, js) ==
    With(JsStage(EmptySt, js, type, "ASCAP"), LAMBDA s1 :
        IF JsShortCircuit(s1) THEN Slice(s1.results, MaxResults)
        ELSE With(AscapHtmlStage(s1, htm, type), LAMBDA s2 :
             With(AscapMdDelimStage(s2, md, type), LAMBDA s3 :
             With(AscapMdTableStage(s3, md, type), LAMBDA s4 :
                 IF LineFallbackDue(s4)
                 THEN Slice(AscapLineStage(s4, md, type).results, MaxResults)
                 ELSE Slice(s4.results, MaxResults)))))

-----------------------------------------------------------------------------
(* Real-Name Resolver: extractRealNameFromWikipedia.  A result is <<name>>, *)
(* or <<>> for null.  Every expression of the function carries the i flag, *)
(* so [A-Z] and [a-zA-Z] both match any letter.                            *)

\* (?:Jr\.|Sr\.|III?|IV|V)
SuffixAlt ==
    Alt(<<LitI("Jr."), LitI("Sr."), Cat(<<LitI("II"), Opt(LitI("I"))>>),
          LitI("IV"), LitI("V")>>)

\* (?:\s+[A-Z][a-zA-Z]*\.?)
NameWord ==
    Cat(<<Plus(Cls(Space)), Cls(Letter), Star(Cls(Letter)), Opt(Cls({"."}))>>)

\* ([A-Z][a-zA-Z]+(?:\s+[A-Z][a-zA-Z]*\.?)+(?:\s+(?:Jr\.|Sr\.|III?|IV|V))?)
TableName ==
    Cat(<<Cls(Letter), Plus(Cls(Letter)), Plus(NameWord),
          Opt(Cat(<<Plus(Cls(Space)), SuffixAlt>>))>>)

\* ([A-Z][a-zA-Z]+(?:\s+[A-Z][a-zA-Z]*\.?)+(?:\s+(?:Jr\.|Sr\.|III?|IV|V)?)?)
FullName ==
    Cat(<<Cls(Letter), Plus(Cls(Letter)), Plus(NameWord),
          Opt(Cat(<<Plus(Cls(Space)), Opt(SuffixAlt)>>))>>)

\* ([A-Z][a-zA-Z]+\s+[A-Z][a-zA-Z]+(?:\s+[A-Z][a-zA-Z]*\.?)*(?:\s+(?:Jr\.|..|V)?)?)
TwoWordName ==
    Cat(<<Cls(Letter), Plus(Cls(Letter)), Plus(Cls(Space)),
          Cls(Letter), Plus(Cls(Letter)), Star(NameWord),
          Opt(Cat(<<Plus(Cls(Space)), Opt(SuffixAlt)>>))>>)

\* \s*(?:<br>|\||\()
TableTail ==
    Cat(<<Star(Cls(Space)), Alt(<<LitI("<br>"), Lit("|"), Lit("(")>>)>>)

tablePatterns ==
    << << Cat(<<Lit("|"), Star(Cls(Space)), LitI("Born"), Star(Cls(Space)),
                Lit("|"), Star(Cls(Space))>>),
          TableName, TableTail >>,
       << Cat(<<LitI("Born"), Star(Cls(Space)), Lit("|"), Star(Cls(Space))>>),
          TableName, TableTail >> >>

bornLinePatterns ==
    << << Cat(<<WordB, LitI("Born"), Plus(Cls({":"} \cup Space))>>), FullName >>,
       << Cat(<<WordB, LitI("born"), Plus(Cls(Space))>>), TwoWordName >> >>

\* new RegExp(`${stageNameEscaped}[^(]*\\(born\\s+(...)`, 'i') and
\* /^[*\s]*(...)[*\s]*,?\s*(?:\(|known|better known|professionally)/i
introPatterns(stageName) ==
    << << Cat(<<LitI(stageName), Star(NCls({"("})), LitI("(born"),
                Plus(Cls(Space))>>),
          FullName >>,
       << Cat(<<Bol, Star(Cls({"*"} \cup Space))>>),
          FullName,
          Cat(<<Star(Cls({"*"} \cup Space)), Opt(Lit(",")), Star(Cls(Space)),
                Alt(<<Lit("("), LitI("known"), LitI("better known"),
                      LitI("professionally")>>)>>) >> >>

\* /birth\s*name[:\s]+(...)/i
birthNamePattern ==
    << Cat(<<LitI("birth"), Star(Cls(Space)), LitI("name"),
             Plus(Cls({":"} \cup Space))>>),
       FullName >>

\* .replace(/\s*\(?\d{1,2}[,\s]+\d{4}\)?.*$/i, '')
dayYearTail ==
    << Cat(<<Star(Cls(Space)), Opt(Lit("(")), Rep(Cls(Digit), 1, 2),
             Plus(Cls({","} \cup Space)), Rep(Cls(Digit), 4, 4), Opt(Lit(")")),
             Star(Dot), Eol>>) >>

\* .replace(/\s*\d{4}.*$/i, '')
yearTail == << Cat(<<Star(Cls(Space)), Rep(Cls(Digit), 4, 4), Star(Dot), Eol>>) >>

\* .replace(/[,;]$/, '')
endPunct == << Cat(<<Cls({",", ";"}), Eol>>) >>

\* the three clean-up replacements of the table and Born groups
CleanDates(captured) ==
    With(trim(ReplaceFirst(dayYearTail, trim(captured), "")), LAMBDA a :
    With(trim(ReplaceFirst(yearTail, a, "")), LAMBDA b :
        trim(ReplaceFirst(endPunct, b, ""))))

\* potentialName.split(/\s+/).filter(w => w.length > 0).length
WordCount(name) == Len(AllMatches(<<Plus(NCls(Space))>>, name, 1))

\* a faulty variant of NotStageName that accepts every candidate
AnyName(name, stageName) == TRUE

\* !potentialName.toLowerCase().includes(stageNameLower)
NotStageName(name, stageName) ==
    ~includes(toLowerCase(name), toLowerCase(stageName))

\* the validation of the table, Born and intro groups
ValidName(name, stageName) ==
    /\ WordCount(name) >= 2
    /\ NotStageName(name, stageName)
    /\ Len(name) > 5
    /\ Len(name) < 60

\* the validation of the birth-name group
ValidBirthName(name, stageName) ==
    WordCount(name) >= 2 /\ NotStageName(name, stageName)

\* the candidate of one pattern (group 2 of its parts) on text, "" without a match
Captured(parts, text) ==
    With(Search(parts, text, 1), LAMBDA m :
        IF m = <<>> THEN "" ELSE Group(text, m, 2))

\* potentialName of a match m of one pattern: <<>> without a match, else the
\* group with the dates (table and Born groups) or the end punctuation removed
Cleaned(m, text, clean) ==
    IF m = <<>> THEN <<>>
    ELSE IF clean THEN <<CleanDates(Group(text, m, 2))>>
    ELSE <<trim(ReplaceFirst(endPunct, trim(Group(text, m, 2)), ""))>>

\* the first of the names (one per pattern, in order) that passes the validation
FirstGood(names, stageName) ==
    IF names = <<>> THEN <<>>
    ELSE LET K == {k \in 1..Len(names) :
                      names[k] # <<>> /\ ValidName(names[k][1], stageName)}
         IN  IF K = {} THEN <<>> ELSE names[Least(K)]

\* for (const pattern of patterns) { ... if (valid) return potentialName }
FirstValid(patterns, text, stageName, clean) ==
    FirstGood([k \in 1..Len(patterns) |->
                  Cleaned(Search(patterns[k], text, 1), text, clean)], stageName)

TableGroup(stageName, md) == FirstValid(tablePatterns, md, stageName, TRUE)

BornGroup(stageName, md) == FirstValid(bornLinePatterns, md, stageName, TRUE)

\* wikiMarkdown.split('\n').slice(0, 30).join(' ')
firstParagraph(md) == Join(Slice(Split(md, "\n"), 30), " ")

IntroGroup(stageName, md) ==
    FirstValid(introPatterns(stageName), firstParagraph(md), stageName, FALSE)

BirthNameGroup(stageName, md) ==
    With(Captured(birthNamePattern, md), LAMBDA cap :
    With(ReplaceFirst(endPunct, trim(cap), ""), LAMBDA name :
        IF cap # "" /\ ValidBirthName(name, stageName) THEN <<name>> ELSE <<>>))

\* a group's name when it found one, else what the later groups give
OrElse(found, later) == IF found # <<>> THEN found ELSE later

extractRealNameFromWikipedia(stageName, md) ==
    OrElse(TableGroup(stageName, md),
           OrElse(BornGroup(stageName, md),
                  OrElse(IntroGroup(stageName, md), BirthNameGroup(stageName, md))))

-----------------------------------------------------------------------------
(* Inputs of the extraction engine *)

\* longest script-extracted list drawn exhaustively from JsPool
MaxJsLen == 2
\* entries of the generated long inputs (one in ten repeats the number before it)
BigN == 56

RECURSIVE Repeat(_, _)
Repeat(str, n) == IF n = 0 THEN "" ELSE str \o Repeat(str, n - 1)

RECURSIVE NumStr(_)
NumStr(n) ==
    IF n < 10 THEN CharAt(DigitStr, n + 1)
    ELSE NumStr(n \div 10) \o CharAt(DigitStr, (n % 10) + 1)

Item(name, ipi) == [name |-> name, ipi |-> ipi]

JsPool ==
    { Item("john  SMITH", "123456789"),
      Item("Jane Doe", "123456789"),
      Item("", "987654321"),
      Item("Acme Music", ""),
      Item("7", "555555555"),
      Item("12345", "222222222"),
      Item(Repeat("Long Name ", 11), "333333333"),
      Item("  ", "444444444") }

RECURSIVE SeqsUpTo(_, _)
SeqsUpTo(S, n) ==
    IF n = 0 THEN {<<>>}
    ELSE LET shorter == SeqsUpTo(S, n - 1)
         IN  shorter \cup {Append(q, x) : q \in shorter, x \in S}

\* the number of entry k of a generated input
GenIpi(k) == NumStr(100000000 + (IF k % 10 = 0 THEN k - 1 ELSE k))

GenJs(n) == [k \in 1..n |-> Item("writer " \o NumStr(k), GenIpi(k))]

\* the table rows of the entries lo..hi (the recursion is by halves)
RECURSIVE GenRows(_, _)
GenRows(lo, hi) ==
    IF lo > hi THEN ""
    ELSE IF lo = hi THEN "| wr" \o NumStr(lo) \o " | " \o GenIpi(lo) \o " |\n"
    ELSE GenRows(lo, (lo + hi) \div 2) \o GenRows((lo + hi) \div 2 + 1, hi)

HtmlPool ==
    { "",
      "<tr><td>john SMITH</td><td>123456789</td></tr>",
      "<tr class=x><td> 42 </td><td>987654321</td></tr><TR><TD>Jane Doe</TD><TD>123456789</TD></TR><tr><td>Bob Roe</td><td>123456789</td></tr>",
      "<tr><td>X</td><td>111111111</td></tr>" }

MdPool ==
    { "",
      "Acme Music | 123456789",
      "| jane doe | 987654321 |\n| IPI Number | 123456789 |\n| 77 | 222222222 |\n| J | 987654321 |",
      "John Smith IPI: 123456789\nJane Doe IPI# 123456789",
      "Results\n123456789\nalso 123456789",
      "ab 123456789",
      "Ab  123456789",
      "Acme - 123456789012 - 123456789",
      "| ab | 111111111 |\nx IPI 5555555550" }

Input(p, t, md, htm, js) ==
    [pro |-> p, type |-> t, md |-> md, html |-> htm, js |-> js]

JsInputs ==
    { Input(p, t, x[1], x[2], js) :
        p \in {"ASCAP", "BMI"}, t \in {"writer", "publisher"},
        x \in { <<"", "">>,
                <<"Acme Music | 123456789\n| jane doe | 987654321 |",
                  "<tr><td>Bob Roe</td><td>111111111</td></tr>">> },
        js \in SeqsUpTo(JsPool, MaxJsLen) }

TextInputs ==
    { Input(p, t, md, htm, js) :
        p \in {"ASCAP", "BMI"}, t \in {"writer", "publisher"},
        md \in MdPool, htm \in HtmlPool,
        js \in { <<>>, <<Item("", "987654321")>> } }

BigInputs ==
    { Input(p, "writer", x[1], x[2], x[3]) :
        p \in {"ASCAP", "BMI"},
        x \in { <<"", "", GenJs(BigN)>>,
                <<GenRows(1, BigN), "", <<>> >> } }

ParseInputs == JsInputs \cup TextInputs \cup BigInputs

-----------------------------------------------------------------------------
(* The extraction engine as a state machine: one call of parseASCAPResults  *)
(* or parseBMIResults, one step per stage.                                  *)

ParseFrame == UNCHANGED <<resolveVars, searchVars, laterVars>>

ParseInit ==
    /\ \E x \in ParseInputs :
          /\ pro = x.pro /\ searchType = x.type
          /\ markdown = x.md /\ html = x.html /\ jsExtracted = x.js
    /\ pc = "js"
    /\ results = <<>> /\ seen = {} /\ ran = {} /\ ret = <<>>
    /\ stageArg = "" /\ query = "" /\ apiKey = ""
    /\ calls = <<>> /\ requests = <<>> /\ response = <<>>
    /\ LaterIdle

St == [results |-> results, seen |-> seen]

\* run a stage: its effect on the locals, and where control goes next
RunStage(name, st, next) ==
    /\ results' = st.results
    /\ seen' = st.seen
    /\ ran' = ran \cup {name}
    /\ pc' = next
    /\ UNCHANGED <<pro, searchType, markdown, html, jsExtracted, ret>>
    /\ ParseFrame

\* for (const item of jsExtracted) ...; if (results.length > 0) return ...
ParseJs ==
    /\ pc = "js"
    /\ With(JsStage(St, jsExtracted, searchType, pro), LAMBDA st :
            RunStage("js", st,
                     IF JsShortCircuit(st) THEN "return"
                     ELSE IF pro = "ASCAP" THEN "html" ELSE "bmiIpi"))

\* while ((match = ipiPattern.exec(markdown)) !== null) ...
ParseBmiIpi ==
    /\ pc = "bmiIpi"
    /\ RunStage("bmiIpi", BmiIpiStage(St, markdown, searchType), "bmiTable")

\* while ((match = tablePattern.exec(markdown)) !== null) ...
ParseBmiTable ==
    /\ pc = "bmiTable"
    /\ RunStage("bmiTable", BmiTableStage(St, markdown, searchType), "return")

\* while ((match = tableRowPattern.exec(html)) !== null) ...
ParseAscapHtml ==
    /\ pc = "html"
    /\ RunStage("html", AscapHtmlStage(St, html, searchType), "mdDelim")

\* while ((match = mdNameIpiPattern.exec(markdown)) !== null) ...
ParseAscapMdDelim ==
    /\ pc = "mdDelim"
    /\ RunStage("mdDelim", AscapMdDelimStage(St, markdown, searchType), "mdTable")

\* while ((match = tablePattern.exec(markdown)) !== null) ...
ParseAscapMdTable ==
    /\ pc = "mdTable"
    /\ With(AscapMdTableStage(St, markdown, searchType), LAMBDA st :
            RunStage("mdTable", st, IF LineFallbackDue(st) THEN "line" ELSE "return"))

\* if (results.length === 0) { for (let i = 0; i < lines.length; i++) ... }
ParseAscapLine ==
    /\ pc = "line"
    /\ RunStage("line", AscapLineStage(St, markdown, searchType), "return")

\* return results.slice(0, 50)
ParseReturn ==
    /\ pc = "return"
    /\ ret' = Slice(results, MaxResults)
    /\ pc' = "done"
    /\ UNCHANGED <<searchType, ran, parseVars>>
    /\ ParseFrame

ParseNext ==
    \/ ParseJs
    \/ ParseBmiIpi
    \/ ParseBmiTable
    \/ ParseAscapHtml
    \/ ParseAscapMdDelim
    \/ ParseAscapMdTable
    \/ ParseAscapLine
    \/ ParseReturn

SpecParse == ParseInit /\ [][ParseNext]_vars

-----------------------------------------------------------------------------
(* Properties of the extraction engine *)

Returned == pc = "done"

\* the entries of the script-extracted list that stage 1 turns into records:
\* accepted, and the first of the list with their number
FirstSeenJs ==
    { k \in 1..Len(jsExtracted) :
        /\ JsAccept(jsExtracted[k])
        /\ \A j \in 1..(k - 1) :
              ~(JsAccept(jsExtracted[j]) /\ jsExtracted[j].ipi = jsExtracted[k].ipi) }

\* C1: the list one call of parseASCAPResults or parseBMIResults returns holds
\* no two records with the same (source, identifying number) pair.
NoDuplicateKey ==
    \A i, j \in 1..Len(ret) :
        (ret[i].pro = ret[j].pro /\ ret[i].ipiNumber = ret[j].ipiNumber) => i = j

\* C1 witness: a call has returned two or more records from a script-extracted
\* list in which two accepted entries carry the same number.
DuplicateOffered ==
    /\ Returned /\ Len(ret) >= 2
    /\ \E i, j \in 1..Len(jsExtracted) :
          /\ i < j /\ JsAccept(jsExtracted[i]) /\ JsAccept(jsExtracted[j])
          /\ jsExtracted[i].ipi = jsExtracted[j].ipi

\* C2: a call returns at most 50 records, and they are the first 50 of the
\* records in the order they were first seen: the returned list is the start
\* of `results`, and when stage 1 produced the records, record k carries the
\* number of the k-th first-seen accepted entry of the script-extracted list.
AtMostFifty ==
    Returned =>
        /\ Len(ret) <= MaxResults
        /\ Len(ret) = (IF Len(results) < MaxResults THEN Len(results) ELSE MaxResults)
        /\ \A k \in 1..Len(ret) : ret[k] = results[k]
        /\ FirstSeenJs # {} =>
              /\ Len(results) = Cardinality(FirstSeenJs)
              /\ \A k \in 1..Len(ret) :
                    ret[k].ipiNumber = jsExtracted[KthOf(FirstSeenJs, k)].ipi

\* C2 witness: a call that collected more than 50 records has returned 50.
SliceCut == Returned /\ Len(results) > MaxResults /\ Len(ret) = MaxResults

\* C3 (as stated): whenever the script-extracted list is non-empty, stages 2-4
\* are never run.
NonEmptyJsSkipsText == jsExtracted # <<>> => ran \subseteq {"js"}

\* C3 (amended): whenever the script-extracted list holds an entry with a
\* non-empty name and a non-empty identifying number, stages 2-4 are never run
\* and every returned record is built from an entry of that list.
AcceptedJsSkipsText ==
    (\E k \in 1..Len(jsExtracted) : JsAccept(jsExtracted[k])) =>
        /\ ran \subseteq {"js"}
        /\ \A r \in 1..Len(ret) :
              \E k \in 1..Len(jsExtracted) :
                  /\ ret[r].ipiNumber = jsExtracted[k].ipi
                  /\ ret[r].name = formatName(jsExtracted[k].name)

\* C3 witness: a call with an accepted script-extracted entry and with text
\* that stages 2-4 would match has returned.
JsWonOverText ==
    /\ Returned /\ Len(ret) >= 1 /\ markdown # "" /\ html # ""
    /\ \E k \in 1..Len(jsExtracted) : JsAccept(jsExtracted[k])

\* C4 (as stated): no returned record has a name of length 1 or less, a name
\* longer than 100 characters, or a name made only of digits.
NamesInBounds ==
    \A k \in 1..Len(ret) :
        /\ Len(ret[k].name) > 1
        /\ Len(ret[k].name) <= 100
        /\ ~IsNumeric(ret[k].name)

\* C22 (as stated): a stage contributes records only if every earlier stage
\* produced zero records: no step adds a record to a non-empty result.
StrictPrecedence ==
    [][Len(results) > 0 => results' = results]_vars

\* the control flow of one step of a call, and what it does to the result
StageStep ==
    /\ Len(results') >= Len(results)
    /\ SubSeq(results', 1, Len(results)) = results
    /\ pc = "js" =>
          pc' = (IF results' # <<>> THEN "return"
                 ELSE IF pro = "ASCAP" THEN "html" ELSE "bmiIpi")
    /\ pc = "html" => pc' = "mdDelim"
    /\ pc = "mdDelim" => pc' = "mdTable"
    /\ pc = "bmiIpi" => pc' = "bmiTable"
    /\ pc = "bmiTable" => pc' = "return"
    /\ pc = "mdTable" => pc' = (IF results' = <<>> THEN "line" ELSE "return")
    /\ pc = "line" => pc' = "return"

\* C22 (amended): the stages are gated at two points only. The call returns at
\* once when the script-extracted stage produced a record, and the line
\* fallback runs only on an empty result; between the two, every scan runs in
\* order whatever the earlier ones produced, and appends its records to theirs.
StagesGatedTwice ==
    /\ [](pc = "line" => results = <<>>)
    /\ []("line" \in ran => "mdTable" \in ran)
    /\ [][StageStep]_vars

\* C22 witness: the markdown-delimiter stage has added the record of "Acme" to
\* a result that held the record the structured-markup stage made of the row
\* of John Smith.
DelimiterAddedToRows ==
    /\ pc = "mdTable" /\ pro = "ASCAP" /\ ran = {"js", "html", "mdDelim"}
    /\ html = "<tr><td>john SMITH</td><td>123456789</td></tr>"
    /\ markdown = "Acme - 123456789012 - 123456789"
    /\ Len(results) = 2
    /\ results[1].name = "John Smith" /\ results[1].ipiNumber = "123456789"
    /\ results[2].name = "Acme" /\ results[2].ipiNumber = "12345678901"

\* the stages before the line fallback produced zero records: for
\* parseASCAPResults the fallback was entered, for parseBMIResults (whose last
\* stage is the pipe-table scan) the result is empty
EarlierStagesEmpty ==
    IF pro = "ASCAP" THEN "line" \in ran ELSE results = <<>>

\* the numbers of the lines of the markdown that hold a 9-11 digit run and have
\* a capitalized-word span on the line or on the previous line
NumbersNearNames ==
    With(Split(markdown, "\n"), LAMBDA lines :
        {LineCandidate(lines, i).ipi :
            i \in {j \in 1..Len(lines) : /\ LineCandidate(lines, j).ipi # ""
                                         /\ LineCandidate(lines, j).name # ""}})

\* C25 (as stated): for both adapters, when a call returns and the stages
\* before the line fallback produced zero records, the returned list has a
\* record for every number of a line with a capitalized-word span on that line
\* or the previous one.
LineFallbackFinds ==
    (Returned /\ EarlierStagesEmpty) =>
        \A ipi \in NumbersNearNames :
            \E k \in 1..Len(ret) : ret[k].ipiNumber = ipi

\* C25, for parseASCAPResults and spans of more than two characters: the
\* fallback is skipped only on a non-empty result, and when it runs the call
\* returns a record for every number of a line with such a span.
AscapLineFallbackFinds ==
    (Returned /\ pro = "ASCAP") =>
        /\ ("mdTable" \in ran /\ "line" \notin ran) => ret # <<>>
        /\ "line" \in ran =>
              With(Split(markdown, "\n"), LAMBDA lines :
                  \A i \in 1..Len(lines) :
                      LineAccept(LineCandidate(lines, i)) =>
                          \E k \in 1..Len(ret) :
                              ret[k].ipiNumber = LineCandidate(lines, i).ipi)

-----------------------------------------------------------------------------
(* The Real-Name Resolver as a state machine: one call of                   *)
(* extractRealNameFromWikipedia, one step per pattern group.                *)

StageNames == {"Snoop Dogg", "Cher", "Sting", "Al B", "calvin"}

WikiPool ==
    { "| Born | Calvin Cordozar Broadus Jr.<br> (1971-10-20)",
      "Born | Snoop Dogg Broadus |\nborn Calvin Broadus",
      "| Born | SNOOP DOGG Senior (1971)\nbirth name: Cherilyn Sarkisian;",
      "Snoop Dogg (born Calvin Broadus; October 20, 1971) is a rapper",
      "**Calvin Broadus**, known professionally as Snoop Dogg",
      "**Cherilyn Sarkisian** (Cher) is a singer\nbirth name: Al B",
      "birth name: Al B",
      "Birth name\nCalvin Cordozar Broadus Snoop Dogg Jr",
      "| Born | Cherilyn Sarkisian |",
      "Sting was born in Wallsend",
      "born Gordon Sumner, 2 October 1951",
      "nothing here",
      "" }

ResolveInit ==
    /\ stageArg \in StageNames
    /\ markdown \in WikiPool
    /\ pc = "table"
    /\ ran = {} /\ ret = <<>>
    /\ pro = "" /\ searchType = "performer" /\ html = "" /\ jsExtracted = <<>>
    /\ results = <<>> /\ seen = {}
    /\ query = "" /\ apiKey = ""
    /\ calls = <<>> /\ requests = <<>> /\ response = <<>>
    /\ LaterIdle

\* a faulty variant of RunGroup in which a group that matched nothing valid
\* ends the search
RunGroupOnce(group, found, next) ==
    /\ ret' = found
    /\ ran' = ran \cup {group}
    /\ pc' = "done"
    /\ UNCHANGED <<searchType, parseVars, resolveVars, searchVars, laterVars>>

\* run a pattern group: return its name when it found one, else go on
RunGroup(group, found, next) ==
    /\ ret' = found
    /\ ran' = ran \cup {group}
    /\ pc' = IF found # <<>> THEN "done" ELSE next
    /\ UNCHANGED <<searchType, parseVars, resolveVars, searchVars, laterVars>>

\* for (const pattern of tablePatterns) ...
TryTable ==
    /\ pc = "table"
    /\ RunGroup("table", TableGroup(stageArg, markdown), "born")

\* for (const pattern of bornLinePatterns) ...
TryBornLine ==
    /\ pc = "born"
    /\ RunGroup("born", BornGroup(stageArg, markdown), "intro")

\* for (const pattern of introPatterns) ...
TryIntro ==
    /\ pc = "intro"
    /\ RunGroup("intro", IntroGroup(stageArg, markdown), "birth")

\* const birthNameMatch = ...; return name, or, at the end, return null
TryBirthName ==
    /\ pc = "birth"
    /\ RunGroup("birth", BirthNameGroup(stageArg, markdown), "done")

ResolveNext ==
    \/ TryTable
    \/ TryBornLine
    \/ TryIntro
    \/ TryBirthName

SpecResolve == ResolveInit /\ [][ResolveNext]_vars

-----------------------------------------------------------------------------
(* Properties of the Real-Name Resolver *)

\* C10: the resolver never returns a non-null candidate whose lower-cased
\* text contains the lower-cased stage name, whichever group produced it.
NeverTheStageName ==
    ret # <<>> => ~includes(toLowerCase(ret[1]), toLowerCase(stageArg))

\* C10 witness: a call returned a name after a pattern of an earlier group had
\* captured a candidate that contains the stage name in another letter case.
StageNameSkipped ==
    /\ pc = "done" /\ ret # <<>> /\ ran = {"table", "born", "intro", "birth"}
    /\ Captured(tablePatterns[1], markdown) # ""
    /\ includes(toLowerCase(Captured(tablePatterns[1], markdown)),
                toLowerCase(stageArg))
    /\ ~includes(Captured(tablePatterns[1], markdown), stageArg)

\* C23 (as stated): every name the resolver returns, from any of its four
\* groups, splits into at least 2 white-space separated tokens and has a
\* length strictly between 5 and 60.
ResolvedNameInBounds ==
    ret # <<>> =>
        /\ WordCount(ret[1]) >= 2
        /\ Len(ret[1]) > 5
        /\ Len(ret[1]) < 60

\* C23, for the infobox, Born and lead-sentence groups, with what is left of
\* it for the birth-name group: two tokens or more.
ResolvedNameInBoundsBeforeLabel ==
    ret # <<>> =>
        /\ WordCount(ret[1]) >= 2
        /\ "birth" \notin ran => (Len(ret[1]) > 5 /\ Len(ret[1]) < 60)

\* the groups in the order the function tries them
GroupOrder == <<"table", "born", "intro", "birth">>

\* the valid candidate of each group on the input of the call (<<>> for none)
GroupCandidates ==
    << TableGroup(stageArg, markdown), BornGroup(stageArg, markdown),
       IntroGroup(stageArg, markdown), BirthNameGroup(stageArg, markdown) >>

\* C24: the groups are tried in the order infobox row, Born sentence, lead
\* sentence, birth-name label; once the call has ended, a group has been tried
\* exactly when no earlier group had a valid candidate, the result is the
\* candidate of the first group that has one, and it is null only when none has.
FirstValidGroupWins ==
    /\ \E n \in 0..4 : ran = {GroupOrder[k] : k \in 1..n}
    /\ pc = "done" =>
          With(GroupCandidates, LAMBDA cand :
              /\ \A k \in 1..4 :
                    GroupOrder[k] \in ran <=> (\A j \in 1..(k - 1) : cand[j] = <<>>)
              /\ \A k \in 1..4 :
                    (cand[k] # <<>> /\ \A j \in 1..(k - 1) : cand[j] = <<>>)
                        => ret = cand[k]
              /\ ret = <<>> <=> (\A k \in 1..4 : cand[k] = <<>>))

\* C24 witness: the infobox group matched a candidate that failed validation
\* (it contains the stage name), the Born group was tried next and its
\* candidate was returned; the two later groups were not tried.
BornAfterInvalidInfobox ==
    /\ pc = "done" /\ ran = {"table", "born"}
    /\ stageArg = "Snoop Dogg"
    /\ Captured(tablePatterns[2], markdown) = "Snoop Dogg Broadus"
    /\ ret = <<"Calvin Broadus">>

-----------------------------------------------------------------------------
(* The Search Orchestrator and the Source Adapters: one request to the      *)
(* serve handler.  A call of an adapter, and the fetch of the performer     *)
(* branch, is a promise: "fetching" until fetch settles, "reading" until    *)
(* response.json() settles, then "fulfilled" with a value or "rejected".    *)

Adapters == {"ASCAP", "BMI"}
Callees == Adapters \cup {"WIKI"}

Call(st, ok, value, error) == [st |-> st, ok |-> ok, value |-> value, error |-> error]

Idle == Call("idle", FALSE, <<>>, "")

\* fetch('https://api.firecrawl.dev/v1/scrape', {... Authorization: Bearer apiKey})
Request(to, key, q) == [to |-> to, key |-> key, query |-> q]

\* the Response objects of the handler: the status and the keys of the JSON body
\* (realName is <<>> for null, <<name>> for a name)
NoResponse ==
    [status |-> 0, keys |-> {}, success |-> FALSE, results |-> <<>>,
     realName |-> <<>>, error |-> ""]

ErrorResponse(status, message) ==
    [status |-> status, keys |-> {"success", "error"}, success |-> FALSE,
     results |-> <<>>, realName |-> <<>>, error |-> message]

SearchResponse(allResults) ==
    [status |-> 200, keys |-> {"success", "results"}, success |-> TRUE,
     results |-> allResults, realName |-> <<>>, error |-> ""]

\* a faulty variant of PerformerResponse that never carries a name
PerformerResponseNoName(realName) ==
    [status |-> 200, keys |-> {"success", "results", "realName", "source"},
     success |-> TRUE, results |-> <<>>, realName |-> <<>>, error |-> ""]

PerformerResponse(realName) ==
    [status |-> 200, keys |-> {"success", "results", "realName", "source"},
     success |-> TRUE, results |-> <<>>, realName |-> realName, error |-> ""]

\* a faulty variant of Configured that takes an unset credential
AlwaysConfigured(key) == TRUE

\* !apiKey, negated
Configured(key) == key # ""

\* a faulty variant of Combine that drops the records of the second list whose
\* number the first list holds
CombineDistinct(ascapResults, bmiResults) ==
    ascapResults \o
        SelectSeq(bmiResults,
                  LAMBDA r : \A k \in 1..Len(ascapResults) :
                                 ascapResults[k].ipiNumber # r.ipiNumber)

\* [...ascapResults, ...bmiResults]
Combine(ascapResults, bmiResults) == ascapResults \o bmiResults

\* a faulty variant of AllFulfilled that waits for one call only
SomeFulfilled(c) == \E a \in Adapters : c[a].st = "fulfilled"

\* Promise.all([...]) resolves when every call has fulfilled
AllFulfilled(c) == \A a \in Adapters : c[a].st = "fulfilled"

\* the body of a provider response that is valid JSON: the markdown, the html and
\* data.actions.javascriptReturns[1].value, which is absent, not parsable, parsable
\* to something that is no array, or parsable to a list of entries
JsValue(kind, items) == [kind |-> kind, items |-> items]

Body(md, htm, js) == [markdown |-> md, html |-> htm, js |-> js]

BodyPool ==
    { Body("", "", JsValue("list", <<Item("john  SMITH", "123456789")>>)),
      Body("| Jane Doe | 123456789 |", "", JsValue("absent", <<>>)),
      Body("", "", JsValue("unparsable", <<>>)),
      Body("| Jane Doe | 123456789 |", "", JsValue("notArray", <<>>)) }

\* if (jsReturns.length > 1 && jsReturns[1]?.value) { try { JSON.parse } catch {} }
JsExtracted(js) == IF js.kind \in {"absent", "unparsable"} THEN <<>> ELSE js.items

\* for (const item of jsExtracted) throws a TypeError on what is no array
NotIterable(js) == js.kind = "notArray"

\* return parseASCAPResults(markdown, html, type, jsExtractedResults), or the BMI one
AdapterResult(a, type, body) ==
    IF a = "ASCAP"
    THEN parseASCAPResults(body.markdown, body.html, type, JsExtracted(body.js))
    ELSE parseBMIResults(body.markdown, body.html, type, JsExtracted(body.js))

\* a faulty variant of AfterBody that throws on a non-success response
AfterBodyStrict(a, type, ok, body) ==
    IF ~ok THEN Call("rejected", ok, <<>>, "Firecrawl API error")
    ELSE IF NotIterable(body.js)
    THEN Call("rejected", ok, <<>>, "jsExtracted is not iterable")
    ELSE Call("fulfilled", ok, AdapterResult(a, type, body), "")

\* an adapter from `const data = await response.json()` on, with data a JSON value
AfterBody(a, type, ok, body) ==
    IF ~ok THEN Call("fulfilled", ok, <<>>, "")
    ELSE IF NotIterable(body.js)
    THEN Call("rejected", ok, <<>>, "jsExtracted is not iterable")
    ELSE Call("fulfilled", ok, AdapterResult(a, type, body), "")

\* a faulty variant of Fetch that issues the request a second time
FetchTwice(reqs, to, key, q) ==
    Append(Append(reqs, Request(to, key, q)), Request(to, key, q))

\* await fetch('https://api.firecrawl.dev/v1/scrape', ...): one request issued
Fetch(reqs, to, key, q) == Append(reqs, Request(to, key, q))

Queries == {"", "Snoop Dogg", "Acme"}
SearchTypes == {"writer", "publisher", "performer", "label"}
Keys == {"", "fc-key"}

WikiBodies ==
    { "| Born | Calvin Cordozar Broadus Jr.<br> (1971-10-20)",
      "Snoop Dogg is a rapper\nbirth name: Snoop Dogg Senior",
      "" }

SearchInit ==
    /\ query \in Queries
    /\ searchType \in SearchTypes
    /\ apiKey \in Keys
    /\ pc = "request"
    /\ calls = [a \in Callees |-> Idle]
    /\ requests = <<>>
    /\ response = NoResponse
    /\ markdown = "" /\ html = "" /\ pro = "" /\ jsExtracted = <<>>
    /\ results = <<>> /\ seen = {} /\ ran = {} /\ ret = <<>> /\ stageArg = ""
    /\ LaterIdle

\* what the performer branch's resolver call leaves alone
WikiFrame ==
    UNCHANGED <<pro, searchType, html, jsExtracted, results, seen, ran,
                stageArg, query, apiKey, laterVars>>

HandlerFrame == UNCHANGED ret /\ WikiFrame

\* return new Response(JSON.stringify(...), ...)
Respond(r) == response' = r /\ pc' = "responded"

\* a faulty variant of RejectNoQuery that looks at the credential first
RejectNoQueryLate ==
    /\ pc = "request" /\ query = ""
    /\ Respond(IF Configured(apiKey)
               THEN ErrorResponse(400, "Query is required")
               ELSE ErrorResponse(500, "Firecrawl not configured"))
    /\ UNCHANGED <<calls, requests, markdown>> /\ HandlerFrame

\* if (!query) return 400 'Query is required'
RejectNoQuery ==
    /\ pc = "request" /\ query = ""
    /\ Respond(ErrorResponse(400, "Query is required"))
    /\ UNCHANGED <<calls, requests, markdown>> /\ HandlerFrame

\* if (!apiKey) return 500 'Firecrawl not configured'
RejectNoKey ==
    /\ pc = "request" /\ query # "" /\ ~Configured(apiKey)
    /\ Respond(ErrorResponse(500, "Firecrawl not configured"))
    /\ UNCHANGED <<calls, requests, markdown>> /\ HandlerFrame

\* if (searchType === 'performer') { ... await fetch(...) of the Wikipedia page
StartPerformer ==
    /\ pc = "request" /\ query # "" /\ Configured(apiKey)
    /\ searchType = "performer"
    /\ requests' = Fetch(requests, "WIKI", apiKey, query)
    /\ calls' = [calls EXCEPT !["WIKI"] = Call("fetching", FALSE, <<>>, "")]
    /\ pc' = "wiki"
    /\ UNCHANGED <<response, markdown>> /\ HandlerFrame

\* await Promise.all([searchASCAPWriters(query, apiKey), searchBMIWriters(...)]),
\* or the publisher pair: each adapter runs up to its fetch
StartBoth ==
    /\ pc = "request" /\ query # "" /\ Configured(apiKey)
    /\ searchType \in {"writer", "publisher"}
    /\ requests' = Fetch(Fetch(requests, "ASCAP", apiKey, query),
                          "BMI", apiKey, query)
    /\ calls' = [a \in Callees |->
                    IF a \in Adapters THEN Call("fetching", FALSE, <<>>, "")
                    ELSE calls[a]]
    /\ pc' = "join"
    /\ UNCHANGED <<response, markdown>> /\ HandlerFrame

\* any other searchType: both lists stay empty
RespondOther ==
    /\ pc = "request" /\ query # "" /\ Configured(apiKey)
    /\ searchType \notin {"writer", "publisher", "performer"}
    /\ Respond(SearchResponse(Combine(<<>>, <<>>)))
    /\ UNCHANGED <<calls, requests, markdown>> /\ HandlerFrame

AdapterFrame == UNCHANGED <<pc, requests, response, markdown>> /\ HandlerFrame

\* the adapter's fetch rejects (the provider is unreachable)
AdapterFetchReject(a) ==
    /\ calls[a].st = "fetching"
    /\ calls' = [calls EXCEPT ![a] = Call("rejected", FALSE, <<>>, "fetch failed")]
    /\ AdapterFrame

\* the adapter's fetch resolves with a response, response.ok or not
AdapterFetchRespond(a) ==
    /\ calls[a].st = "fetching"
    /\ \E ok \in BOOLEAN :
          calls' = [calls EXCEPT ![a] = Call("reading", ok, <<>>, "")]
    /\ AdapterFrame

\* await response.json() rejects: the body is no JSON
AdapterBodyInvalid(a) ==
    /\ calls[a].st = "reading"
    /\ calls' = [calls EXCEPT ![a] =
                    Call("rejected", calls[a].ok, <<>>, "Unexpected token")]
    /\ AdapterFrame

\* await response.json() resolves, and the adapter runs to its end
AdapterBodyRead(a) ==
    /\ calls[a].st = "reading"
    /\ \E body \in BodyPool :
          calls' = [calls EXCEPT ![a] = AfterBody(a, searchType, calls[a].ok, body)]
    /\ AdapterFrame

\* Promise.all rejects with a call that rejected: catch (error) returns 500
JoinReject ==
    /\ pc = "join"
    /\ \E a \in Adapters :
          /\ calls[a].st = "rejected"
          /\ Respond(ErrorResponse(500, calls[a].error))
    /\ UNCHANGED <<calls, requests, markdown>> /\ HandlerFrame

\* Promise.all resolves: return {success: true, results: allResults}
JoinResolve ==
    /\ pc = "join"
    /\ AllFulfilled(calls)
    /\ Respond(SearchResponse(Combine(calls["ASCAP"].value, calls["BMI"].value)))
    /\ UNCHANGED <<calls, requests, markdown>> /\ HandlerFrame

\* the performer branch's fetch rejects: catch (wikiError), realName stays null
WikiFetchReject ==
    /\ pc = "wiki" /\ calls["WIKI"].st = "fetching"
    /\ calls' = [calls EXCEPT !["WIKI"] = Call("rejected", FALSE, <<>>, "fetch failed")]
    /\ Respond(PerformerResponse(<<>>))
    /\ UNCHANGED <<requests, markdown>> /\ HandlerFrame

\* the performer branch's fetch resolves (response.ok is not looked at)
WikiFetchRespond ==
    /\ pc = "wiki" /\ calls["WIKI"].st = "fetching"
    /\ \E ok \in BOOLEAN :
          calls' = [calls EXCEPT !["WIKI"] = Call("reading", ok, <<>>, "")]
    /\ UNCHANGED <<pc, requests, response, markdown>> /\ HandlerFrame

\* await wikiResponse.json() rejects: catch (wikiError), realName stays null
WikiBodyInvalid ==
    /\ pc = "wiki" /\ calls["WIKI"].st = "reading"
    /\ calls' = [calls EXCEPT !["WIKI"] =
                    Call("rejected", calls["WIKI"].ok, <<>>, "Unexpected token")]
    /\ Respond(PerformerResponse(<<>>))
    /\ UNCHANGED <<requests, markdown>> /\ HandlerFrame

\* realName = extractRealNameFromWikipedia(query, wikiMarkdown)
WikiBodyRead ==
    /\ pc = "wiki" /\ calls["WIKI"].st = "reading"
    /\ \E md \in WikiBodies :
          /\ ret' = extractRealNameFromWikipedia(query, md)
          /\ markdown' = md
    /\ calls' = [calls EXCEPT !["WIKI"] =
                    Call("fulfilled", calls["WIKI"].ok, <<>>, "")]
    /\ Respond(PerformerResponse(ret'))
    /\ UNCHANGED requests /\ WikiFrame

SearchNext ==
    \/ RejectNoQuery
    \/ RejectNoKey
    \/ StartPerformer
    \/ StartBoth
    \/ RespondOther
    \/ \E a \in Adapters : AdapterFetchReject(a)
    \/ \E a \in Adapters : AdapterFetchRespond(a)
    \/ \E a \in Adapters : AdapterBodyInvalid(a)
    \/ \E a \in Adapters : AdapterBodyRead(a)
    \/ JoinReject
    \/ JoinResolve
    \/ WikiFetchReject
    \/ WikiFetchRespond
    \/ WikiBodyInvalid
    \/ WikiBodyRead

SpecSearch == SearchInit /\ [][SearchNext]_vars

-----------------------------------------------------------------------------
(* Properties of the Search Orchestrator and the Source Adapters *)

\* a writer or publisher search with a query and a configured credential
RepertorySearch ==
    searchType \in {"writer", "publisher"} /\ query # "" /\ apiKey # ""

\* a request has been issued to the rendering provider for this callee
Asked(to) == \E k \in 1..Len(requests) : requests[k].to = to

Responded == pc = "responded"

\* C5: in a writer or publisher search with a query and a credential, the
\* adapter of both repertories is invoked, and when both have completed the
\* response results are the ASCAP adapter's records followed by the BMI
\* adapter's, none removed or merged.
BothRepertoriesConcatenated ==
    RepertorySearch =>
        /\ pc # "request" => Asked("ASCAP") /\ Asked("BMI")
        /\ (Responded /\ \A a \in Adapters : calls[a].st = "fulfilled") =>
              /\ response.success
              /\ response.keys = {"success", "results"}
              /\ Len(response.results)
                    = Len(calls["ASCAP"].value) + Len(calls["BMI"].value)
              /\ \A k \in 1..Len(calls["ASCAP"].value) :
                    response.results[k] = calls["ASCAP"].value[k]
              /\ \A k \in 1..Len(calls["BMI"].value) :
                    response.results[Len(calls["ASCAP"].value) + k]
                        = calls["BMI"].value[k]

\* C5 witness: a success response holds a record of each repertory with the
\* same identifying number.
SameNumberKept ==
    /\ Responded /\ RepertorySearch /\ response.success
    /\ \E i, j \in 1..Len(response.results) :
          /\ response.results[i].pro = "ASCAP" /\ response.results[j].pro = "BMI"
          /\ response.results[i].ipiNumber = response.results[j].ipiNumber

\* C6: in a performer search with a query and a credential no adapter request
\* is issued, and the response is success=true with results=[] and realName
\* the resolver's result on the fetched markdown (the handler's realName),
\* null when the resolver finds nothing or the fetch fails; the 'Snoop Dogg'
\* infobox row gives 'Calvin Cordozar Broadus Jr.'.
PerformerResolvesOnly ==
    (searchType = "performer" /\ query # "" /\ apiKey # "") =>
        /\ \A a \in Adapters : ~Asked(a) /\ calls[a].st = "idle"
        /\ Responded =>
              /\ response.status = 200 /\ response.success
              /\ response.results = <<>>
              /\ "results" \in response.keys /\ "realName" \in response.keys
              /\ response.realName = ret
              /\ calls["WIKI"].st # "fulfilled" => response.realName = <<>>
              /\ ( /\ query = "Snoop Dogg" /\ calls["WIKI"].st = "fulfilled"
                   /\ markdown = "| Born | Calvin Cordozar Broadus Jr.<br> (1971-10-20)" )
                    => response.realName = <<"Calvin Cordozar Broadus Jr.">>

\* C6 witness: a performer search for 'Snoop Dogg' has been answered with the
\* name of the infobox row.
SnoopDoggResolved ==
    /\ Responded /\ searchType = "performer" /\ query = "Snoop Dogg"
    /\ Asked("WIKI")
    /\ response.realName = <<"Calvin Cordozar Broadus Jr.">>

\* C7: without a configured credential a request with a query gets
\* {success:false, error}, with no results and no realName, and no request
\* goes to the rendering provider.
NoCredentialNoRequest ==
    (apiKey = "" /\ query # "") =>
        /\ requests = <<>>
        /\ pc \in {"request", "responded"}
        /\ Responded =>
              /\ ~response.success
              /\ response.keys = {"success", "error"}
              /\ response.results = <<>> /\ response.realName = <<>>

\* C7 witness: a request with a query and no credential has been answered.
AnsweredWithoutCredential ==
    Responded /\ apiKey = "" /\ query # "" /\ response.status = 500

\* C8 (as stated): an adapter call never ends by throwing, whatever the
\* provider does.
AdapterNeverThrows == \A a \in Adapters : calls[a].st # "rejected"

\* C9: in a writer or publisher search both adapter calls start together, a
\* success response is sent only once both have completed, and when a call
\* failed the response is {success:false, error} without any record.
JoinedAsBatch ==
    RepertorySearch =>
        /\ (calls["ASCAP"].st = "idle") = (calls["BMI"].st = "idle")
        /\ (Responded /\ response.success) =>
              \A a \in Adapters : calls[a].st = "fulfilled"
        /\ (Responded /\ \E a \in Adapters : calls[a].st = "rejected") =>
              /\ ~response.success
              /\ response.keys = {"success", "error"}
              /\ response.results = <<>>

\* C9 witness: the response is a failure although one adapter returned records.
OneFailedOtherReturned ==
    /\ Responded /\ RepertorySearch /\ ~response.success
    /\ \E a, b \in Adapters :
          /\ calls[a].st = "rejected"
          /\ calls[b].st = "fulfilled" /\ Len(calls[b].value) > 0

\* the provider answered this callee's request with an HTTP response (the fetch
\* did not reject), and the response was a non-success one
Received(c) ==
    \/ calls[c].st \in {"reading", "fulfilled"}
    \/ calls[c].st = "rejected" /\ calls[c].error # "fetch failed"

NonSuccess(c) == Received(c) /\ ~calls[c].ok

\* C17 (as stated): when the rendering provider answered a search with a
\* non-success response, the response to the caller is a failure envelope
\* (success = false with an error message), never a success response.
NonSuccessIsFailure ==
    (Responded /\ \E c \in Callees : NonSuccess(c)) =>
        ~response.success /\ response.error # ""

\* C17 (amended): a non-success provider response with a JSON body is swallowed.
\* An adapter that got one returns the empty list and never throws on it; a
\* writer or publisher search whose adapter calls all returned answers
\* success = true, and answers the failure envelope only when a call threw (fetch
\* rejected, body no JSON, script value not iterable); a performer search that
\* reached the provider answers success = true whatever the provider said.
NonSuccessSwallowed ==
    /\ \A a \in Adapters :
          /\ (calls[a].st = "fulfilled" /\ ~calls[a].ok) => calls[a].value = <<>>
          /\ calls[a].st = "rejected" =>
                /\ calls[a].error \in {"fetch failed", "Unexpected token",
                                       "jsExtracted is not iterable"}
                /\ calls[a].error = "jsExtracted is not iterable" => calls[a].ok
    /\ (Responded /\ RepertorySearch) =>
          /\ (\A a \in Adapters : calls[a].st = "fulfilled") => response.success
          /\ ~response.success =>
                /\ response.keys = {"success", "error"}
                /\ \E a \in Adapters :
                      calls[a].st = "rejected" /\ response.error = calls[a].error
    /\ (Responded /\ Asked("WIKI")) =>
          response.success /\ "error" \notin response.keys

\* C17 witness: a writer or publisher search was answered with success = true
\* although the provider answered an adapter with a non-success response.
NonSuccessAnsweredAsSuccess ==
    /\ Responded /\ RepertorySearch /\ response.success
    /\ \E a \in Adapters : calls[a].st = "fulfilled" /\ NonSuccess(a)

PerformerSearch == searchType = "performer" /\ query # "" /\ apiKey # ""

\* the requests issued for a callee
RequestsTo(to) == Len(SelectSeq(requests, LAMBDA r : r.to = to))

\* C18: no retry.  A callee that was called has exactly one request to the
\* provider, whatever became of the call, so a writer or publisher search that
\* started has issued exactly two requests (one per repertory) and a performer
\* search exactly one; and once the response is sent, it stays as sent and no
\* further request is issued.
OneRequestPerCall ==
    /\ \A c \in Callees :
          RequestsTo(c) = (IF calls[c].st = "idle" THEN 0 ELSE 1)
    /\ (RepertorySearch /\ pc # "request") =>
          /\ Len(requests) = 2
          /\ \A a \in Adapters : RequestsTo(a) = 1
    /\ (PerformerSearch /\ pc # "request") =>
          Len(requests) = 1 /\ RequestsTo("WIKI") = 1
    /\ pc = "request" => requests = <<>>

FailureIsTerminal ==
    pc = "responded" =>
        /\ pc' = "responded" /\ response' = response /\ requests' = requests
        /\ \A c \in Callees : calls[c].st = "rejected" => calls'[c] = calls[c]

NoRetry == []OneRequestPerCall /\ [][FailureIsTerminal]_vars

\* C18 witness: a writer or publisher search failed (an adapter call rejected,
\* the failure envelope was sent) with two requests issued in all.
FailedAfterTwoRequests ==
    /\ Responded /\ RepertorySearch /\ ~response.success
    /\ Len(requests) = 2
    /\ \E a \in Adapters : calls[a].st = "rejected"

\* C29: a request whose query is missing or empty (`!query`: "" stands for both)
\* is answered with status 400 {success:false, error:'Query is required'},
\* whatever the search type and whether or not the credential is configured,
\* and no request goes to the rendering provider.
NoQueryRejectedFirst ==
    query = "" =>
        /\ requests = <<>>
        /\ pc \in {"request", "responded"}
        /\ \A a \in Callees : calls[a] = Idle
        /\ Responded =>
              /\ response.status = 400
              /\ response.keys = {"success", "error"}
              /\ ~response.success
              /\ response.error = "Query is required"

\* C29 witness: a performer request with neither a query nor a credential has
\* been answered with status 400.
NoQueryNoCredentialAnswered ==
    /\ Responded /\ query = "" /\ apiKey = "" /\ searchType = "performer"
    /\ response.status = 400

-----------------------------------------------------------------------------
(* formatName applied to its own result *)

\* the longest input and the characters it is made of: a lower-case letter, an
\* upper-case letter, a white-space character and U+00DF
MaxNameLen == 3
NameChars == <<"a", "B", " ", Eszett>>

RECURSIVE StringsUpTo(_)
StringsUpTo(n) ==
    IF n = 0 THEN {""}
    ELSE With(StringsUpTo(n - 1),
              LAMBDA shorter :
                  shorter \cup {str \o NameChars[k] : str \in shorter, k \in 1..Len(NameChars)})

FormatInit ==
    /\ SearchIdle /\ StoreIdle /\ FormIdle /\ MailIdle /\ PageIdle
    /\ formatted \in {<<str>> : str \in StringsUpTo(MaxNameLen)}

\* one more application: formatted[k + 1] = formatName(formatted[k])
FormatName ==
    /\ Len(formatted) \in 1..2
    /\ formatted' = Append(formatted, formatName(formatted[Len(formatted)]))
    /\ UNCHANGED <<functionVars, storeVars, formVars, mailVars, pageVars>>

FormatNext == FormatName

SpecFormat == FormatInit /\ [][FormatNext]_vars

\* C16 (as stated): formatting a formatted name changes nothing,
\* formatName(formatName(s)) = formatName(s) for every string s.
FormatIdempotent == Len(formatted) = 3 => formatted[3] = formatted[2]

\* C16, on the inputs made of ASCII characters only: there the second
\* application changes nothing.
FormatIdempotentAscii ==
    (Len(formatted) = 3 /\ ~includes(formatted[1], Eszett)) => formatted[3] = formatted[2]

-----------------------------------------------------------------------------
(* The Collection Store Gateway: the saved_ipis table, the observed client's *)
(* list query and delete mutation, and the other clients of the table.       *)

\* the rows ever inserted
MaxRows == 3

RECURSIVE Descending(_)
Descending(ids) ==
    IF ids = {} THEN <<>>
    ELSE With(CHOOSE x \in ids : \A y \in ids : y <= x,
              LAMBDA top : <<top>> \o Descending(ids \ {top}))

\* select('*').order('created_at', { ascending: false }): rows are numbered in
\* the order of their insertion, so the latest row has the largest id
SelectAll(rows) == Descending(rows)

\* a faulty variant of DeleteIn that deletes nothing
DeleteNone(rows, ids) == rows

\* .delete().in('id', ids)
DeleteIn(rows, ids) == rows \ ids

\* .insert({ name, ipi_number, type }): id takes its default gen_random_uuid(),
\* a value no row has had
Insert(rows, id) == rows \cup {id}

Query(st, known, rows) == [st |-> st, known |-> known, rows |-> rows]

\* queryClient runs queryFn: the request is sent (a fetch still in flight is
\* dropped for the new one); `known` records the deletes that had completed
\* successfully when the query was issued
IssueQuery(known) == Query("sent", known, <<>>)

Mutation(st, ids) == [st |-> st, ids |-> ids]

StoreInit ==
    /\ SearchIdle /\ FormatIdle /\ FormIdle /\ MailIdle /\ PageIdle
    /\ table = {} /\ nextRow = 1
    /\ savedIPIs = <<>>
    /\ listQuery = Query("none", {}, <<>>)
    /\ deleteMutation = Mutation("idle", {})
    /\ deletedIds = {}

StoreFrame == UNCHANGED <<functionVars, formatVars, formVars, mailVars, pageVars>>

\* any client saves an entry (saveMutation's insert, executed by the database)
SaveInsert ==
    /\ nextRow <= MaxRows
    /\ table' = Insert(table, nextRow)
    /\ nextRow' = nextRow + 1
    /\ UNCHANGED <<savedIPIs, listQuery, deleteMutation, deletedIds>> /\ StoreFrame

\* another client deletes entries (its delete, executed by the database)
OtherDelete ==
    /\ \E ids \in SUBSET table \ {{}} : table' = DeleteIn(table, ids)
    /\ UNCHANGED <<nextRow, savedIPIs, listQuery, deleteMutation, deletedIds>>
    /\ StoreFrame

\* the observed client lists the collection: on mount, and on every refetch
ListIssue ==
    /\ listQuery.st \notin {"sent", "served"}
    /\ listQuery' = IssueQuery(deletedIds)
    /\ UNCHANGED <<table, nextRow, savedIPIs, deleteMutation, deletedIds>>
    /\ StoreFrame

\* the database executes the list query
ListServe ==
    /\ listQuery.st = "sent"
    /\ listQuery' = Query("served", listQuery.known, SelectAll(table))
    /\ UNCHANGED <<table, nextRow, savedIPIs, deleteMutation, deletedIds>>
    /\ StoreFrame

\* return data as SavedIPI[]
ListReturn ==
    /\ listQuery.st = "served"
    /\ listQuery' = [listQuery EXCEPT !.st = "done"]
    /\ savedIPIs' = listQuery.rows
    /\ UNCHANGED <<table, nextRow, deleteMutation, deletedIds>> /\ StoreFrame

\* if (error) throw error: the query fails, before or after the database ran it
ListThrow ==
    /\ listQuery.st \in {"sent", "served"}
    /\ listQuery' = Query("failed", listQuery.known, <<>>)
    /\ UNCHANGED <<table, nextRow, savedIPIs, deleteMutation, deletedIds>>
    /\ StoreFrame

\* deleteIPIs(ids): the ids are chosen among the entries shown
DeleteStart ==
    /\ deleteMutation.st \in {"idle", "success", "error"}
    /\ \E ids \in SUBSET {savedIPIs[k] : k \in 1..Len(savedIPIs)} \ {{}} :
          deleteMutation' = Mutation("pending", ids)
    /\ UNCHANGED <<table, nextRow, savedIPIs, listQuery, deletedIds>> /\ StoreFrame

\* the database executes the delete
DeleteServe ==
    /\ deleteMutation.st = "pending"
    /\ table' = DeleteIn(table, deleteMutation.ids)
    /\ deleteMutation' = [deleteMutation EXCEPT !.st = "served"]
    /\ UNCHANGED <<nextRow, savedIPIs, listQuery, deletedIds>> /\ StoreFrame

\* the delete returns without error; onSuccess: invalidateQueries(['saved-ipis']),
\* which lists the collection again
DeleteSuccess ==
    /\ deleteMutation.st = "served"
    /\ deleteMutation' = [deleteMutation EXCEPT !.st = "success"]
    /\ deletedIds' = deletedIds \cup deleteMutation.ids
    /\ listQuery' = IssueQuery(deletedIds')
    /\ UNCHANGED <<table, nextRow, savedIPIs>> /\ StoreFrame

\* if (error) throw error; onError: the delete failed, before or after the
\* database ran it, and nothing is listed again
DeleteThrow ==
    /\ deleteMutation.st \in {"pending", "served"}
    /\ deleteMutation' = [deleteMutation EXCEPT !.st = "error"]
    /\ UNCHANGED <<table, nextRow, savedIPIs, listQuery, deletedIds>> /\ StoreFrame

StoreNext ==
    \/ SaveInsert
    \/ OtherDelete
    \/ ListIssue
    \/ ListServe
    \/ ListReturn
    \/ ListThrow
    \/ DeleteStart
    \/ DeleteServe
    \/ DeleteSuccess
    \/ DeleteThrow

SpecStore == StoreInit /\ [][StoreNext]_vars

\* C11: once a delete of the observed client that named x has completed
\* successfully, the table holds no row with id x, and no list query issued
\* afterwards (the one issued by the delete's invalidation included) returns a
\* row with id x, whatever the other clients insert and delete meanwhile.
DeletedStaysGone ==
    /\ table \cap deletedIds = {}
    /\ listQuery.st \in {"served", "done"} =>
          \A j \in 1..Len(listQuery.rows) : listQuery.rows[j] \notin listQuery.known

\* C11 witness: a list query issued after a successful delete has returned, and
\* it returned rows: the ones inserted around the delete.
ListedAfterDelete ==
    /\ listQuery.st = "done" /\ listQuery.known # {}
    /\ listQuery.rows # <<>>

-----------------------------------------------------------------------------
(* Numbers of the split-sheet form.  A share is a JavaScript number: an IEEE *)
(* 754 double.  The doubles met here are non-negative multiples of 2^-60     *)
(* below 2^15; one is written as five limbs of 15 bits, the lowest first.    *)

LimbBase == 2 ^ 15
LimbIndex == 1..5

Pow2(n) == 2 ^ n

\* the five limbs of x, each computed once
Limbs(x) == <<x[1], x[2], x[3], x[4], x[5]>>

\* the number of bits of n < 2^15
BitLen(n) == CHOOSE k \in 0..15 : n < Pow2(k) /\ (k = 0 \/ Pow2(k - 1) <= n)

\* the index of the highest bit set (bit 0 is 2^-60), -1 for zero
TopBit(x) ==
    IF \A j \in LimbIndex : x[j] = 0 THEN -1
    ELSE With(CHOOSE j \in LimbIndex : x[j] # 0 /\ \A k \in LimbIndex : k > j => x[k] = 0,
              LAMBDA j : 15 * (j - 1) + BitLen(x[j]) - 1)

BitAt(x, i) == (x[i \div 15 + 1] \div Pow2(i % 15)) % 2

\* some bit below bit n is set
AnyBelow(x, n) ==
    \E j \in LimbIndex :
        /\ 15 * (j - 1) < n
        /\ IF 15 * j <= n THEN x[j] # 0 ELSE (x[j] % Pow2(n - 15 * (j - 1))) # 0

\* x with the bits below bit n cleared
ClearBelow(x, n) ==
    Limbs([j \in LimbIndex |->
              IF 15 * j <= n THEN 0
              ELSE IF 15 * (j - 1) >= n THEN x[j]
              ELSE x[j] - (x[j] % Pow2(n - 15 * (j - 1)))])

\* 2^n in limbs
OneBit(n) ==
    Limbs([j \in LimbIndex |-> IF j = n \div 15 + 1 THEN Pow2(n % 15) ELSE 0])

RECURSIVE CarryInto(_, _, _)
CarryInto(x, y, j) ==
    IF j = 1 THEN 0 ELSE (x[j - 1] + y[j - 1] + CarryInto(x, y, j - 1)) \div LimbBase

\* x + y, exactly
AddExact(x, y) ==
    Limbs([j \in LimbIndex |-> (x[j] + y[j] + CarryInto(x, y, j)) % LimbBase])

RECURSIVE BorrowInto(_, _, _)
BorrowInto(x, y, j) ==
    IF j = 1 THEN 0
    ELSE IF x[j - 1] - y[j - 1] - BorrowInto(x, y, j - 1) < 0 THEN 1 ELSE 0

\* x - y, exactly, for x >= y
SubExact(x, y) ==
    Limbs([j \in LimbIndex |->
              (x[j] - y[j] - BorrowInto(x, y, j) + LimbBase) % LimbBase])

\* x < y
Less(x, y) ==
    \E j \in LimbIndex : x[j] < y[j] /\ \A k \in LimbIndex : k > j => x[k] = y[k]

\* round to nearest, ties to even, at 53 significant bits; `inexact` says that
\* the exact value lies above x by less than 2^-60
RoundDouble(x, inexact) ==
    With(TopBit(x) - 52,
         LAMBDA r :
            IF r <= 0 THEN x
            ELSE IF BitAt(x, r - 1) = 1
                    /\ (inexact \/ AnyBelow(x, r - 1) \/ BitAt(x, r) = 1)
            THEN AddExact(ClearBelow(x, r), OneBit(r))
            ELSE ClearBelow(x, r))

\* the remainder that enters limb j of h * 2^60 / 100, dividing from the top
RECURSIVE RemInto(_, _)
RemInto(h, j) ==
    IF j = 5 THEN 0
    ELSE ((RemInto(h, j + 1) * LimbBase + (IF j + 1 = 5 THEN h ELSE 0)) % 100)

\* parseFloat of a decimal text with two decimals, h hundredths: the double
\* nearest to h / 100
Double(h) ==
    RoundDouble(Limbs([j \in LimbIndex |->
                          (RemInto(h, j) * LimbBase + (IF j = 5 THEN h ELSE 0))
                              \div 100]),
                ((RemInto(h, 1) * LimbBase) % 100) # 0)

RECURSIVE CarryOfTimes(_, _, _)
CarryOfTimes(x, m, j) ==
    IF j = 1 THEN 0 ELSE (x[j - 1] * m + CarryOfTimes(x, m, j - 1)) \div LimbBase

\* m * x, exactly, for a small m
TimesExact(x, m) ==
    Limbs([j \in LimbIndex |-> (x[j] * m + CarryOfTimes(x, m, j)) % LimbBase])

\* a + b and |a - b| of JavaScript numbers
Plus64(a, b) == RoundDouble(AddExact(a, b), FALSE)
AbsDiff64(a, b) ==
    RoundDouble(IF Less(a, b) THEN SubExact(b, a) ELSE SubExact(a, b), FALSE)

-----------------------------------------------------------------------------
(* The split-sheet form: SplitSheetTab with its WriterCards and               *)
(* PublisherCards.  A share is kept as the decimal text typed, in hundredths: *)
(* share h stands for the JavaScript number Double(h).  Of a writer and of a  *)
(* publisher the fields kept are the id, the name, the email and the share.   *)

\* the writers of a form and the ids handed out
MaxWriters == 2
MaxIds == 4
\* the calls of the send function
MaxSends == 1

\* parseFloat(text) for a text of digits with at most two decimals, in
\* hundredths; <<>> is NaN
Digits(text) == \A k \in 1..Len(text) : CharAt(text, k) \in CharsOf(DigitStr)

RECURSIVE DigitsValue(_)
DigitsValue(text) ==
    IF text = "" THEN 0
    ELSE 10 * DigitsValue(Sub(text, 1, Len(text) - 1))
            + IndexIn(DigitStr, CharAt(text, Len(text))) - 1

parseFloat(text) ==
    With(Least({k \in 1..Len(text) : CharAt(text, k) = "."} \cup {Len(text) + 1}),
         LAMBDA dot :
            With(<<Sub(text, 1, dot - 1), Sub(text, dot + 1, Len(text))>>,
                 LAMBDA parts :
                    IF parts[1] = "" \/ ~Digits(parts[1]) \/ ~Digits(parts[2])
                       \/ Len(parts[2]) > 2
                    THEN <<>>
                    ELSE <<100 * DigitsValue(parts[1])
                             + (IF Len(parts[2]) = 1 THEN 10 ELSE 1)
                                 * DigitsValue(parts[2])>>))

\* parseFloat(e.target.value) || 0
ShareOf(text) == With(parseFloat(text), LAMBDA n : IF n = <<>> THEN 0 ELSE n[1])

\* createEmptyWriter()
createEmptyWriter(id) ==
    [id |-> id, fullName |-> "", email |-> "", share |-> 0, publisher |-> <<>>]

\* the publisher of addPublisher: publisher <<>> is undefined
createEmptyPublisher(id) == [id |-> id, email |-> "", share |-> 0]

\* onChange({ ...writer, [field]: value }), and the same of a publisher
updateField(card, field, value) == [card EXCEPT ![field] = value]

\* updated[index] = writer
updateWriter(ws, index, writer) == [ws EXCEPT ![index] = writer]

\* a faulty variant of removeWriter that leaves the publisher of the writer
\* removed with the writer that takes its place
RemoveKeepingPublisher(ws, index) ==
    [k \in 1..(Len(ws) - 1) |->
        IF k = (IF index = Len(ws) THEN index - 1 ELSE index)
        THEN [(IF k < index THEN ws[k] ELSE ws[k + 1])
                 EXCEPT !.publisher = ws[index].publisher]
        ELSE IF k < index THEN ws[k] ELSE ws[k + 1]]

\* writers.filter((_, i) => i !== index)
removeWriter(ws, index) ==
    [k \in 1..(Len(ws) - 1) |-> IF k < index THEN ws[k] ELSE ws[k + 1]]

\* a faulty variant of getRecipientCount that counts the writers
CountWriters(ws) == Len(ws)

\* getRecipientCount()
getRecipientCount(ws) ==
    Cardinality({k \in 1..Len(ws) : ws[k].email # ""})
        + Cardinality({k \in 1..Len(ws) :
                          ws[k].publisher # <<>> /\ ws[k].publisher[1].email # ""})

Titles == {"", "Song"}
Names == {"", "Ann"}
Emails == {"", "a@x"}
\* the texts typed into the share inputs: the ones met where the whole form is
\* followed, and the ones met where the shares alone are
WriterShareTexts == {"", "60"}
PublisherShareTexts == {"", "40"}
MoreWriterShareTexts == {"", "60", "150", "0.1"}
MorePublisherShareTexts == {"", "40", "40.01", "99.89"}

\* the doubles of the shares that can be typed, of 0.01 and of 100, computed once
Doubles ==
    [h \in {ShareOf(text) : text \in MoreWriterShareTexts \cup MorePublisherShareTexts}
            \cup {1, 10000} |-> Double(h)]

NumberOf(h) == IF h \in DOMAIN Doubles THEN Doubles[h] ELSE Double(h)

\* writers.reduce((sum, w) => sum + f(w), 0)
RECURSIVE Reduce(_, _, _)
Reduce(F(_), ws, k) ==
    IF k = 0 THEN NumberOf(0) ELSE Plus64(Reduce(F, ws, k - 1), F(ws[k]))

writersTotal(ws) == Reduce(LAMBDA w : NumberOf(w.share), ws, Len(ws))

\* sum + (w.publisher?.share || 0)
publishersTotal(ws) ==
    Reduce(LAMBDA w : IF w.publisher = <<>> THEN NumberOf(0)
                      ELSE NumberOf(w.publisher[1].share),
           ws, Len(ws))

grandTotal(ws) == Plus64(writersTotal(ws), publishersTotal(ws))

\* Math.abs(grandTotal - 100) < 0.01
isValid(ws) == Less(AbsDiff64(grandTotal(ws), NumberOf(10000)), NumberOf(1))

\* the toast of the first check of handleSendForSignature that fails, "" if none
Refusal(info, ws) ==
    IF info.title = "" THEN "Missing Info: Please enter a song title"
    ELSE IF \A k \in 1..Len(ws) : ws[k].fullName = ""
    THEN "Missing Info: Please add at least one writer"
    ELSE IF ~isValid(ws) THEN "Invalid Shares: Shares must total 100%"
    ELSE IF getRecipientCount(ws) = 0
    THEN "No Recipients: Add email addresses to send for signature"
    ELSE ""

FormInit ==
    /\ SearchIdle /\ FormatIdle /\ StoreIdle /\ MailIdle /\ PageIdle
    /\ songInfo = [title |-> ""]
    /\ writers = <<createEmptyWriter(1)>>
    /\ isSending = FALSE
    /\ toast = ""
    /\ invocations = <<>>
    /\ nextId = 2
    /\ removed = {}

FormFrame == UNCHANGED <<functionVars, formatVars, storeVars, mailVars, pageVars>>

\* SongInfoForm: the title is typed
EditTitle ==
    /\ \E t \in Titles : songInfo' = updateField(songInfo, "title", t)
    /\ toast' = ""
    /\ UNCHANGED <<writers, isSending, invocations, nextId, removed>>
    /\ FormFrame

\* setWriters([...writers, createEmptyWriter()])
AddWriter ==
    /\ Len(writers) < MaxWriters /\ nextId <= MaxIds
    /\ writers' = Append(writers, createEmptyWriter(nextId))
    /\ nextId' = nextId + 1
    /\ toast' = ""
    /\ UNCHANGED <<songInfo, isSending, invocations, removed>>
    /\ FormFrame

\* a faulty variant of RemoveWriter whose button is shown on every card
RemoveWriterAlways(i) ==
    /\ writers' = removeWriter(writers, i)
    /\ removed' = removed \cup {writers[i].publisher[k].id :
                                   k \in 1..Len(writers[i].publisher)}
    /\ toast' = ""
    /\ UNCHANGED <<songInfo, isSending, invocations, nextId>>
    /\ FormFrame

\* the remove button of a WriterCard, shown when writers.length > 1
RemoveWriter(i) ==
    /\ Len(writers) > 1
    /\ writers' = removeWriter(writers, i)
    /\ removed' = removed \cup {writers[i].publisher[k].id :
                                   k \in 1..Len(writers[i].publisher)}
    /\ toast' = ""
    /\ UNCHANGED <<songInfo, isSending, invocations, nextId>>
    /\ FormFrame

EditFrame ==
    /\ toast' = ""
    /\ UNCHANGED <<songInfo, isSending, invocations, nextId, removed>> /\ FormFrame

\* WriterCard: the name or the email is typed
EditWriter(i) ==
    /\ \/ \E v \in Names :
             writers' = updateWriter(writers, i, updateField(writers[i], "fullName", v))
       \/ \E v \in Emails :
             writers' = updateWriter(writers, i, updateField(writers[i], "email", v))
    /\ EditFrame

\* WriterCard: the share is typed
EditWriterShare(i, texts) ==
    /\ \E text \in texts :
          writers' = updateWriter(writers, i,
                                  updateField(writers[i], "share", ShareOf(text)))
    /\ EditFrame

\* WriterCard addPublisher, shown when the writer has no publisher
AddPublisher(i) ==
    /\ writers[i].publisher = <<>> /\ nextId <= MaxIds
    /\ writers' = updateWriter(writers, i,
                     updateField(writers[i], "publisher",
                                 <<createEmptyPublisher(nextId)>>))
    /\ nextId' = nextId + 1
    /\ toast' = ""
    /\ UNCHANGED <<songInfo, isSending, invocations, removed>>
    /\ FormFrame

\* WriterCard removePublisher: onChange({ ...writer, publisher: undefined })
RemovePublisher(i) ==
    /\ writers[i].publisher # <<>>
    /\ writers' = updateWriter(writers, i, updateField(writers[i], "publisher", <<>>))
    /\ EditFrame

\* PublisherCard: the email is typed
EditPublisher(i) ==
    /\ writers[i].publisher # <<>>
    /\ \E v \in Emails :
          writers' = updateWriter(writers, i,
                        updateField(writers[i], "publisher",
                                    <<updateField(writers[i].publisher[1], "email", v)>>))
    /\ EditFrame

\* PublisherCard: the share is typed
EditPublisherShare(i, texts) ==
    /\ writers[i].publisher # <<>>
    /\ \E text \in texts :
          writers' = updateWriter(writers, i,
                        updateField(writers[i], "publisher",
                                    <<updateField(writers[i].publisher[1], "share",
                                                  ShareOf(text))>>))
    /\ EditFrame

\* handleSendForSignature: a check fails, toast and return
SendRefused ==
    /\ toast' = Refusal(songInfo, writers)
    /\ toast' # ""
    /\ UNCHANGED <<songInfo, writers, isSending, invocations, nextId, removed>>
    /\ FormFrame

\* handleSendForSignature: every check passes; setIsSending(true) and
\* supabase.functions.invoke('send-splitsheet', { body: { songInfo, writers } })
SendInvoke ==
    /\ Refusal(songInfo, writers) = ""
    /\ Len(invocations) < MaxSends
    /\ isSending' = TRUE
    /\ invocations' = Append(invocations, "pending")
    /\ toast' = ""
    /\ UNCHANGED <<songInfo, writers, nextId, removed>>
    /\ FormFrame

\* the invocation returns data: toast 'Split Sheet Sent!'; finally setIsSending(false)
InvokeReturn(k) ==
    /\ invocations[k] = "pending"
    /\ invocations' = [invocations EXCEPT ![k] = "sent"]
    /\ toast' = "Split Sheet Sent!"
    /\ isSending' = FALSE
    /\ UNCHANGED <<songInfo, writers, nextId, removed>>
    /\ FormFrame

\* if (error) throw error; catch: toast 'Error'; finally setIsSending(false)
InvokeThrow(k) ==
    /\ invocations[k] = "pending"
    /\ invocations' = [invocations EXCEPT ![k] = "failed"]
    /\ toast' = "Error"
    /\ isSending' = FALSE
    /\ UNCHANGED <<songInfo, writers, nextId, removed>>
    /\ FormFrame

FormNext ==
    \/ EditTitle
    \/ AddWriter
    \/ \E i \in 1..Len(writers) : RemoveWriter(i)
    \/ \E i \in 1..Len(writers) : EditWriter(i)
    \/ \E i \in 1..Len(writers) : EditWriterShare(i, WriterShareTexts)
    \/ \E i \in 1..Len(writers) : AddPublisher(i)
    \/ \E i \in 1..Len(writers) : RemovePublisher(i)
    \/ \E i \in 1..Len(writers) : EditPublisher(i)
    \/ \E i \in 1..Len(writers) : EditPublisherShare(i, PublisherShareTexts)
    \/ SendRefused
    \/ SendInvoke
    \/ \E k \in 1..Len(invocations) : InvokeReturn(k)
    \/ \E k \in 1..Len(invocations) : InvokeThrow(k)

SpecForm == FormInit /\ [][FormNext]_vars

\* the share inputs alone: the cards are added and removed and shares are typed
SharesNext ==
    \/ AddWriter
    \/ \E i \in 1..Len(writers) : RemoveWriter(i)
    \/ \E i \in 1..Len(writers) : EditWriterShare(i, MoreWriterShareTexts)
    \/ \E i \in 1..Len(writers) : AddPublisher(i)
    \/ \E i \in 1..Len(writers) : RemovePublisher(i)
    \/ \E i \in 1..Len(writers) : EditPublisherShare(i, MorePublisherShareTexts)

SpecShares == FormInit /\ [][SharesNext]_vars

\* the four preconditions of a send, each as the specification words it
HasTitle == songInfo.title # ""
HasNamedWriter == \E k \in 1..Len(writers) : writers[k].fullName # ""
HasRecipient ==
    \E k \in 1..Len(writers) :
        \/ writers[k].email # ""
        \/ writers[k].publisher # <<>> /\ writers[k].publisher[1].email # ""

ReadyToSend == HasTitle /\ HasNamedWriter /\ isValid(writers) /\ HasRecipient

RefusalToasts ==
    {"Missing Info: Please enter a song title",
     "Missing Info: Please add at least one writer",
     "Invalid Shares: Shares must total 100%",
     "No Recipients: Add email addresses to send for signature"}

\* a step that issues a request starts from a state where the four
\* preconditions hold; a step that shows a refusal starts from a state where one
\* fails, issues nothing and leaves isSending, writers and songInfo as they were;
\* and from a state where one fails no step issues a request or sets isSending
SendGate ==
    /\ Len(invocations') > Len(invocations) => ReadyToSend
    /\ (toast' \in RefusalToasts /\ toast' # toast) =>
          /\ ~ReadyToSend
          /\ UNCHANGED <<invocations, isSending, writers, songInfo>>
    /\ (~ReadyToSend) => (Len(invocations') = Len(invocations) /\ (isSending' => isSending))

\* C12: handleSendForSignature issues the request only when the title is not
\* empty, a writer has a name, the share total is valid and a writer or a
\* publisher has an email; when one of the four fails there is no call and
\* isSending, writers and songInfo do not change.
RequestOnlyWhenReady == [][SendGate]_vars

\* C12 witness: a request has been issued and is under way.
RequestUnderWay ==
    /\ invocations # <<>> /\ invocations[Len(invocations)] = "pending"
    /\ isSending /\ ReadyToSend

\* the total of the shares as typed, in hundredths
RECURSIVE TypedTotal(_, _)
TypedTotal(ws, k) ==
    IF k = 0 THEN 0
    ELSE TypedTotal(ws, k - 1) + ws[k].share
            + (IF ws[k].publisher = <<>> THEN 0 ELSE ws[k].publisher[1].share)

\* C13 (as stated): the total is valid exactly when the sum of the writers'
\* shares and of their publishers' shares differs from 100 by less than 0.01:
\* for shares typed with two decimals, exactly when they sum to 100.
ValidExactlyAtHundred ==
    isValid(writers) <=> TypedTotal(writers, Len(writers)) = 10000

\* the sum of the shares as stored, without any rounding of the additions
RECURSIVE StoredTotal(_, _)
StoredTotal(ws, k) ==
    IF k = 0 THEN NumberOf(0)
    ELSE AddExact(AddExact(StoredTotal(ws, k - 1), NumberOf(ws[k].share)),
                  IF ws[k].publisher = <<>> THEN NumberOf(0)
                  ELSE NumberOf(ws[k].publisher[1].share))

\* |x - 100| < 1/100, exactly
WithinTolerance(x) ==
    With(IF Less(x, NumberOf(10000)) THEN SubExact(NumberOf(10000), x)
         ELSE SubExact(x, NumberOf(10000)),
         LAMBDA d : d[5] = 0 /\ Less(TimesExact(d, 100), NumberOf(100)))

\* C13, read over the numbers stored instead of the decimals typed: the total is
\* valid exactly when the exact sum of the stored shares is less than 0.01 away
\* from 100.
ValidExactlyWithinTolerance ==
    isValid(writers) <=> WithinTolerance(StoredTotal(writers, Len(writers)))

\* C13, the examples of the specification: writer 60 with publisher 40 is valid,
\* writer 60 without a publisher is not.
ValidExamples ==
    (Len(writers) = 1 /\ writers[1].share = 6000) =>
        /\ writers[1].publisher = <<>> => ~isValid(writers)
        /\ (writers[1].publisher # <<>> /\ writers[1].publisher[1].share = 4000)
              => isValid(writers)

\* C19 (as stated): every share of the form is within 0 and 100.
SharesWithinBounds ==
    \A k \in 1..Len(writers) :
        /\ writers[k].share \in 0..10000
        /\ writers[k].publisher # <<>> => writers[k].publisher[1].share \in 0..10000

PublisherIds(ws) ==
    {ws[k].publisher[1].id : k \in {j \in 1..Len(ws) : ws[j].publisher # <<>>}}

WriterIds(ws) == {ws[k].id : k \in 1..Len(ws)}

\* C20: every writer has at most one publisher, a publisher is part of exactly
\* one writer (no two writers hold a publisher of the same id, and no publisher
\* is a writer), and the publisher of a writer that was removed is nowhere in
\* the form, so that the recipient count and the totals are those of the
\* writers left.
OnePublisherEach ==
    /\ \A k \in 1..Len(writers) : Len(writers[k].publisher) <= 1
    /\ Cardinality(WriterIds(writers)) = Len(writers)
    /\ Cardinality(PublisherIds(writers))
          = Cardinality({k \in 1..Len(writers) : writers[k].publisher # <<>>})
    /\ WriterIds(writers) \cap PublisherIds(writers) = {}
    /\ removed \cap PublisherIds(writers) = {}
    /\ getRecipientCount(writers) <= 2 * Len(writers)

\* C20 witness: a writer that had a publisher was removed, and the writer left
\* has a publisher of its own.
WriterRemovedWithPublisher ==
    /\ removed # {} /\ Len(writers) = 1 /\ writers[1].publisher # <<>>

\* C27: the writers list is never empty: it has one writer at the start and at
\* least one after any add-writer and remove-writer actions.
WritersNeverEmpty == Len(writers) >= 1

\* C27 witness: the writer the form started with has been removed, and the
\* writer left is one that was added.
FirstWriterRemoved ==
    Len(writers) = 1 /\ writers[1].id # createEmptyWriter(1).id

-----------------------------------------------------------------------------
(* The Split-Sheet Notifier: one request to the send-splitsheet handler.     *)
(* Of a writer of the body the fields kept are the email and the email of    *)
(* the publisher (<<>> without a publisher); the document rendered for a     *)
(* recipient is left out.                                                    *)

\* the writers of a request body
MaxBodyWriters == 2

Addresses == {"", "a@x", "b@x"}

BodyWriter(email, publisher) == [email |-> email, publisher |-> publisher]

BodyWriters ==
    {BodyWriter(e, p) : e \in Addresses, p \in {<<>>} \cup {<<q>> : q \in Addresses}}

\* writers.forEach: the writer's email if there is one, then its publisher's
RecipientsOfWriter(writer) ==
    (IF writer.email # "" THEN <<writer.email>> ELSE <<>>)
        \o (IF writer.publisher # <<>> /\ writer.publisher[1] # ""
            THEN <<writer.publisher[1]>> ELSE <<>>)

RECURSIVE CollectRecipients(_, _)
CollectRecipients(ws, k) ==
    IF k = 0 THEN <<>>
    ELSE CollectRecipients(ws, k - 1) \o RecipientsOfWriter(ws[k])

\* { email: recipient.email, ...emailResponse } for a send that resolved: with
\* data (the provider took the email) or with an error object (it refused it)
ResultOf(email, outcome) == [email |-> email, outcome |-> outcome]

\* no response yet
NoReply == [status |-> 0, keys |-> {}, sent |-> 0, results |-> <<>>]

\* JSON.stringify({ success: true, sent: results.length, results }), status 200
SentReply(sendResults) ==
    [status |-> 200, keys |-> {"success", "sent", "results"},
     sent |-> Len(sendResults), results |-> sendResults]

\* JSON.stringify({ error: ... }) with its status
ErrorReply(status) ==
    [status |-> status, keys |-> {"error"}, sent |-> 0, results |-> <<>>]

MailInit ==
    /\ SearchIdle /\ FormatIdle /\ StoreIdle /\ FormIdle /\ PageIdle
    /\ mailPc = "request"
    /\ mailWriters \in SeqsUpTo(BodyWriters, MaxBodyWriters)
    /\ recipients = <<>>
    /\ emailResponses = <<>>
    /\ outbox = <<>>
    /\ reply = NoReply

MailFrame == UNCHANGED <<functionVars, formatVars, storeVars, formVars, pageVars>>

\* if (recipients.length === 0) return 400
NoRecipients ==
    /\ mailPc = "request"
    /\ CollectRecipients(mailWriters, Len(mailWriters)) = <<>>
    /\ reply' = ErrorReply(400)
    /\ mailPc' = "responded"
    /\ UNCHANGED <<mailWriters, recipients, emailResponses, outbox>>
    /\ MailFrame

\* a faulty variant of Dispatch that awaits the first send before it starts the
\* next one (a loop of awaits instead of Promise.all over map)
DispatchInTurn ==
    /\ mailPc = "request"
    /\ recipients' = CollectRecipients(mailWriters, Len(mailWriters))
    /\ recipients' # <<>>
    /\ outbox' = Append(outbox, recipients'[1])
    /\ emailResponses' = [k \in 1..Len(recipients') |-> "pending"]
    /\ mailPc' = "sending"
    /\ UNCHANGED <<mailWriters, reply>>
    /\ MailFrame

\* Promise.all(recipients.map(async ...)): every callback runs up to its await,
\* so one send request per entry of the list goes to the provider
Dispatch ==
    /\ mailPc = "request"
    /\ recipients' = CollectRecipients(mailWriters, Len(mailWriters))
    /\ recipients' # <<>>
    /\ outbox' = outbox \o recipients'
    /\ emailResponses' = [k \in 1..Len(recipients') |-> "pending"]
    /\ mailPc' = "sending"
    /\ UNCHANGED <<mailWriters, reply>>
    /\ MailFrame

SettleFrame == UNCHANGED <<mailPc, mailWriters, recipients, outbox, reply>> /\ MailFrame

\* resend.emails.send resolves with { data: { id }, error: null }
MailAccepted(k) ==
    /\ emailResponses[k] = "pending"
    /\ emailResponses' = [emailResponses EXCEPT ![k] = "data"]
    /\ SettleFrame

\* resend.emails.send resolves with { data: null, error }: the provider refused
\* the email
MailRefused(k) ==
    /\ emailResponses[k] = "pending"
    /\ emailResponses' = [emailResponses EXCEPT ![k] = "error"]
    /\ SettleFrame

\* resend.emails.send rejects: the provider could not be reached
MailThrown(k) ==
    /\ emailResponses[k] = "pending"
    /\ emailResponses' = [emailResponses EXCEPT ![k] = "thrown"]
    /\ SettleFrame

\* Promise.all resolves: every send resolved
ReplySent ==
    /\ mailPc = "sending"
    /\ \A k \in 1..Len(recipients) : emailResponses[k] \in {"data", "error"}
    /\ reply' = SentReply([k \in 1..Len(recipients) |->
                              ResultOf(recipients[k], emailResponses[k])])
    /\ mailPc' = "responded"
    /\ UNCHANGED <<mailWriters, recipients, emailResponses, outbox>>
    /\ MailFrame

\* Promise.all rejects with a send that rejected: catch (error) returns 500
ReplyError ==
    /\ mailPc = "sending"
    /\ \E k \in 1..Len(recipients) : emailResponses[k] = "thrown"
    /\ reply' = ErrorReply(500)
    /\ mailPc' = "responded"
    /\ UNCHANGED <<mailWriters, recipients, emailResponses, outbox>>
    /\ MailFrame

MailNext ==
    \/ NoRecipients
    \/ Dispatch
    \/ \E k \in 1..Len(recipients) : MailAccepted(k)
    \/ \E k \in 1..Len(recipients) : MailRefused(k)
    \/ \E k \in 1..Len(recipients) : MailThrown(k)
    \/ ReplySent
    \/ ReplyError

SpecMail == MailInit /\ [][MailNext]_vars

\* the addresses present in the request, and the emails requested for one
AddressesIn(ws) ==
    ({ws[k].email : k \in 1..Len(ws)}
        \cup {ws[k].publisher[1] : k \in {j \in 1..Len(ws) : ws[j].publisher # <<>>}})
      \ {""}

EmailsTo(address) == Len(SelectSeq(outbox, LAMBDA to : to = address))

\* C14 (as stated): the recipients are the union of the non-empty writer and
\* publisher emails of the request; once the sends are made each address present
\* has exactly one email, and the `sent` count reported is the number of
\* recipients.
OneEmailPerAddress ==
    mailPc \in {"sending", "responded"} /\ recipients # <<>> =>
        /\ {recipients[k] : k \in 1..Len(recipients)} = AddressesIn(mailWriters)
        /\ \A address \in AddressesIn(mailWriters) : EmailsTo(address) = 1
        /\ "sent" \in reply.keys => reply.sent = Cardinality(AddressesIn(mailWriters))

\* C14, for the entries of the list instead of the addresses: one send request
\* per entry, in the order of the list, and `sent` is the length of the list.
OneEmailPerEntry ==
    mailPc \in {"sending", "responded"} /\ recipients # <<>> =>
        /\ outbox = recipients
        /\ {recipients[k] : k \in 1..Len(recipients)} = AddressesIn(mailWriters)
        /\ "sent" \in reply.keys => reply.sent = Len(recipients)

\* C15 (as stated): when the provider rejected the send of a recipient, the
\* response is an error response: {error}, no sent count, no report per
\* recipient; and no send is made again.
RejectionIsFatal ==
    /\ (mailPc = "responded"
          /\ \E k \in 1..Len(recipients) : emailResponses[k] \in {"error", "thrown"})
       => (reply.keys = {"error"} /\ reply.status # 200)
    /\ Len(outbox) = Len(recipients)

\* C15, for the sends that end by throwing: the response is then {error} with
\* status 500; and no response waits for less than all the sends or makes one
\* again.
ThrownIsFatal ==
    /\ (mailPc = "responded"
          /\ \E k \in 1..Len(recipients) : emailResponses[k] = "thrown")
       => (reply.keys = {"error"} /\ reply.status = 500)
    /\ Len(outbox) = Len(recipients)

\* C30: the send of every recipient is started before the result of any send
\* is awaited: from the moment the sends are under way, and in every response
\* (the error responses included), the attempts made are one per recipient, in
\* the order of the list; nothing is sent before, and nothing more after.
AllSendsStartedTogether ==
    /\ mailPc = "request" => outbox = <<>> /\ recipients = <<>>
    /\ mailPc \in {"sending", "responded"} => outbox = recipients
    /\ reply.keys = {"error"} => Len(outbox) = Len(recipients)

\* C30 witness: the call ended with the error response of the catch although
\* two sends were made and the provider took one of the emails.
ErrorAfterDispatch ==
    /\ mailPc = "responded" /\ reply.keys = {"error"} /\ reply.status = 500
    /\ Len(outbox) = 2 /\ Len(recipients) = 2
    /\ \E k \in 1..Len(recipients) : emailResponses[k] = "data"

-----------------------------------------------------------------------------
(* The page (pages/Index.tsx) with its results table (ResultsTable): the    *)
(* results of the three sections, the selection, Save to Collection and the *)
(* exports.  The performer section's results stay empty: the function       *)
(* answers a performer search with results [].                              *)

\* the calls of saveIPIs of a run
MaxSaves == 1

SearchResult(name, ipi, type, source) ==
    [name |-> name, ipiNumber |-> ipi, type |-> type, pro |-> source]

\* what the ASCAP and the BMI adapter return for a search of one category
AscapLists(type) ==
    {<<>>, <<SearchResult("Jane Doe", "111111111", type, "ASCAP")>>}

BmiLists(type) ==
    IF type = "writer"
    THEN {<<>>, << SearchResult("Jane Doe", "111111111", type, "BMI"),
                   SearchResult("Bob Roe", "222222222", type, "BMI") >>}
    ELSE {<<>>}

\* response.results of a successful search: the function's Combine of the two
ResponseResults(type) ==
    {Combine(a, b) : a \in AscapLists(type), b \in BmiLists(type)}

\* getResultId: `${result.type}-${result.ipiNumber}`
getResultId(result) == result.type \o "-" \o result.ipiNumber

\* const allResults = [...writerResults, ...publisherResults, ...performerResults]
allResults == writerResults \o publisherResults \o performerResults

\* allResults.filter((r) => selectedResults.has(`${r.type}-${r.ipiNumber}`))
selectedItems ==
    SelectSeq(allResults, LAMBDA r : getResultId(r) \in selectedResults)

\* selectedItems.map((item) => ({ id, name, ipi_number, type, created_at }))
\* (created_at, the time of the export, is left out)
exportData ==
    [k \in 1..Len(selectedItems) |->
        [id |-> getResultId(selectedItems[k]), name |-> selectedItems[k].name,
         ipi_number |-> selectedItems[k].ipiNumber, type |-> selectedItems[k].type]]

\* results.length > 0 && results.every((r) => selectedIds.has(getResultId(r)))
allSelected ==
    /\ allResults # <<>>
    /\ \A k \in 1..Len(allResults) : getResultId(allResults[k]) \in selectedResults

SelectInit ==
    /\ SearchIdle /\ FormatIdle /\ StoreIdle /\ FormIdle /\ MailIdle
    /\ SectionIdle /\ ViewIdle
    /\ writerResults = <<>> /\ publisherResults = <<>> /\ performerResults = <<>>
    /\ selectedResults = {}
    /\ saveCalls = <<>> /\ isSaving = FALSE
    /\ exported = <<>>

SelectFrame ==
    UNCHANGED <<functionVars, formatVars, storeVars, formVars, mailVars,
                sectionVars, viewVars>>

\* onResultsChange={setWriterResults}: a writer search ended with results
SetWriterResults ==
    /\ \E list \in ResponseResults("writer") : writerResults' = list
    /\ UNCHANGED <<publisherResults, performerResults, selectedResults,
                   saveCalls, isSaving, exported>>
    /\ SelectFrame

\* onResultsChange={setPublisherResults}
SetPublisherResults ==
    /\ \E list \in ResponseResults("publisher") : publisherResults' = list
    /\ UNCHANGED <<writerResults, performerResults, selectedResults,
                   saveCalls, isSaving, exported>>
    /\ SelectFrame

\* handleSelectAll(checked), from the header checkbox (checked={allSelected})
\* of the table, which is rendered when there are results
handleSelectAll ==
    /\ allResults # <<>>
    /\ selectedResults' =
          (IF ~allSelected
           THEN {getResultId(allResults[k]) : k \in 1..Len(allResults)}
           ELSE {})
    /\ UNCHANGED <<writerResults, publisherResults, performerResults,
                   saveCalls, isSaving, exported>>
    /\ SelectFrame

\* handleSelectOne(result, checked), from the checkbox of row k
\* (checked={isSelected})
handleSelectOne(k) ==
    /\ selectedResults' =
          (IF getResultId(allResults[k]) \notin selectedResults
           THEN selectedResults \cup {getResultId(allResults[k])}
           ELSE selectedResults \ {getResultId(allResults[k])})
    /\ UNCHANGED <<writerResults, publisherResults, performerResults,
                   saveCalls, isSaving, exported>>
    /\ SelectFrame

\* handleSaveSelected, from the Save to Collection button (rendered when
\* selectedItems.length > 0, disabled={isSaving})
handleSaveSelected ==
    /\ selectedItems # <<>> /\ ~isSaving
    /\ Len(saveCalls) < MaxSaves
    /\ saveCalls' = Append(saveCalls, selectedItems)
    /\ isSaving' = TRUE
    /\ selectedResults' = {}
    /\ UNCHANGED <<writerResults, publisherResults, performerResults, exported>>
    /\ SelectFrame

\* the save mutation settles (onSuccess or onError)
SaveSettled ==
    /\ isSaving
    /\ isSaving' = FALSE
    /\ UNCHANGED <<writerResults, publisherResults, performerResults,
                   selectedResults, saveCalls, exported>>
    /\ SelectFrame

\* handleExportSelected(format), from the CSV and JSON buttons
handleExportSelected(format) ==
    /\ selectedItems # <<>>
    /\ exported' = [format |-> format, data |-> exportData]
    /\ UNCHANGED <<writerResults, publisherResults, performerResults,
                   selectedResults, saveCalls, isSaving>>
    /\ SelectFrame

SelectNext ==
    \/ SetWriterResults
    \/ SetPublisherResults
    \/ handleSelectAll
    \/ \E k \in 1..Len(allResults) : handleSelectOne(k)
    \/ handleSaveSelected
    \/ SaveSettled
    \/ \E format \in {"csv", "json"} : handleExportSelected(format)

SpecSelect == SelectInit /\ [][SelectNext]_vars

\* no two entries of the list carry the same key
OnePerKey(keys) ==
    \A i, j \in 1..Len(keys) : keys[i] = keys[j] => i = j

\* C21 (as stated): the items passed to Save to Collection and to an export
\* hold at most one record per (category, identifying number).
SelectionDeduplicated ==
    /\ \A c \in 1..Len(saveCalls) :
          OnePerKey([k \in 1..Len(saveCalls[c]) |->
                        <<saveCalls[c][k].type, saveCalls[c][k].ipiNumber>>])
    /\ exported # <<>> =>
          OnePerKey([k \in 1..Len(exported.data) |->
                        <<exported.data[k].type, exported.data[k].ipi_number>>])

\* C21, for the selection itself: it is a set of keys, and a key is selected
\* for all the records that carry it or for none, so that the items saved are
\* all the records of the page whose key was selected.
SelectedByKey ==
    /\ \A i, j \in 1..Len(allResults) :
          getResultId(allResults[i]) = getResultId(allResults[j]) =>
              ((\E k \in 1..Len(selectedItems) : selectedItems[k] = allResults[i])
                  <=> (\E k \in 1..Len(selectedItems) : selectedItems[k] = allResults[j]))
    /\ selectedResults \subseteq
          {t \o "-" \o n : t \in {"writer", "publisher"},
                           n \in {"111111111", "222222222"}}

-----------------------------------------------------------------------------
(* One SearchSection (components/SearchSection.tsx): the input, the search  *)
(* button, the Enter key and the calls of ascapApi.search.  A call is       *)
(* pending, or it ended: "results" (success with records), "empty" (success *)
(* with none), "realName" (a performer's success with a name and no record),*)
(* "failed" (success: false) or "thrown" (the promise rejected).            *)

\* the calls of ascapApi.search of a run
MaxSearches == 2

\* the texts of the input
Typings == {"", " ", "a", "b"}

SectionTypes == {"writer", "performer"}

\* the keys pressed in the input
PressedKeys == {"Enter", "a"}

\* how a call of ascapApi.search can end for a section of this type
Outcomes(type) ==
    IF type = "performer" THEN {"realName", "empty", "failed", "thrown"}
    ELSE {"results", "empty", "failed", "thrown"}

Pending == {k \in 1..Len(searches) : searches[k].st = "pending"}

SectionInit ==
    /\ SearchIdle /\ FormatIdle /\ StoreIdle /\ FormIdle /\ MailIdle
    /\ SelectIdle /\ ViewIdle /\ exported = <<>>
    /\ sectionType \in SectionTypes
    /\ typed = ""
    /\ isLoading = FALSE
    /\ searches = <<>>
    /\ shown = <<>>
    /\ performerRealName = <<>>
    /\ sectionToast = ""

SectionFrame ==
    UNCHANGED <<functionVars, formatVars, storeVars, formVars, mailVars,
                selectVars, viewVars, exported>>

\* onChange={(e) => setQuery(e.target.value)}
setQuery ==
    /\ \E text \in Typings : text # typed /\ typed' = text
    /\ UNCHANGED <<sectionType, isLoading, searches, shown, performerRealName,
                   sectionToast>>
    /\ SectionFrame

\* handleSearch up to its await: if (!query.trim()) return; setIsLoading(true);
\* ascapApi.search(query, type)
handleSearch ==
    /\ trim(typed) # ""
    /\ Len(searches) < MaxSearches
    /\ isLoading' = TRUE
    /\ searches' = Append(searches, [query |-> typed, st |-> "pending"])
    /\ UNCHANGED <<sectionType, typed, shown, performerRealName, sectionToast>>
    /\ SectionFrame

\* the search button: disabled={isLoading || !query.trim()}
ClickSearch == ~isLoading /\ handleSearch

\* handleKeyDown: if (e.key === 'Enter') handleSearch()
handleKeyDown(key) == key = "Enter" /\ handleSearch

\* handleSearch after its await, for call k ending with outcome
SearchSettles(k, outcome) ==
    /\ searches[k].st = "pending"
    /\ searches' = [searches EXCEPT ![k].st = outcome]
    /\ performerRealName' =
          (IF sectionType = "performer" /\ outcome \in {"realName", "empty"}
           THEN (IF outcome = "realName" THEN <<"Real Name">> ELSE <<>>)
           ELSE performerRealName)
    /\ shown' =
          (IF outcome \in {"results", "empty", "realName"}
           THEN [search |-> k, query |-> searches[k].query]
           ELSE shown)
    /\ sectionToast' =
          (CASE outcome = "realName" -> "Real name found"
             [] outcome = "empty" -> "No results"
             [] outcome = "failed" -> "Search failed"
             [] outcome = "thrown" -> "Error"
             [] OTHER -> sectionToast)
    /\ isLoading' = FALSE
    /\ UNCHANGED <<sectionType, typed>>
    /\ SectionFrame

SectionNext ==
    \/ setQuery
    \/ ClickSearch
    \/ \E key \in PressedKeys : handleKeyDown(key)
    \/ \E k \in 1..Len(searches) :
          \E outcome \in Outcomes(sectionType) : SearchSettles(k, outcome)

SpecSection == SectionInit /\ [][SectionNext]_vars

\* the section with the button as the only way to start a search
SectionClickNext ==
    \/ setQuery
    \/ ClickSearch
    \/ \E k \in 1..Len(searches) :
          \E outcome \in Outcomes(sectionType) : SearchSettles(k, outcome)

SpecSectionClicks == SectionInit /\ [][SectionClickNext]_vars

\* C26 (as stated): at most one search is in flight at any time, and the
\* results shown come from the most recently submitted query among the
\* searches that have delivered results.
OneSearchInFlight ==
    /\ Cardinality(Pending) <= 1
    /\ shown # <<>> =>
          \A k \in 1..Len(searches) :
              searches[k].st \in {"results", "empty", "realName"} => k <= shown.search

\* C26, with the button as the only way to start a search (SpecSectionClicks):
\* isLoading is true as long as a search is pending, so the button is disabled
\* until the search has ended.
LoadingCoversPending ==
    Pending # {} => isLoading

-----------------------------------------------------------------------------
(* The collection view (SavedIPIsSection): the rows the useSavedIPIs hook   *)
(* returns, the type filter, the selection, Delete and the exports.  A call *)
(* of deleteIPIs is pending, or it ended with "success" or "error"; after a *)
(* success the list is fetched again.                                       *)

\* the rows of the collection at the start, and the calls of deleteIPIs
MaxViewRows == 2
MaxDeletes == 2

RowTypes == {"writer", "publisher"}
FilterTypes == {"all", "writer", "publisher", "performer"}

SavedRow(id, type) == [id |-> id, type |-> type]

\* filterType === 'all' ? savedIPIs : savedIPIs.filter((ipi) => ipi.type === filterType)
filteredIPIs ==
    IF filterType = "all" THEN viewRows
    ELSE SelectSeq(viewRows, LAMBDA ipi : ipi.type = filterType)

IdsOf(rows) == {rows[k].id : k \in 1..Len(rows)}

\* selectedIds.size > 0 ? filteredIPIs.filter((ipi) => selectedIds.has(ipi.id))
\*                      : filteredIPIs
dataToExport ==
    IF selectedIds # {}
    THEN SelectSeq(filteredIPIs, LAMBDA ipi : ipi.id \in selectedIds)
    ELSE filteredIPIs

\* the ids of the deletes that succeeded
DeletedSoFar ==
    UNION {deleteCalls[k].ids :
              k \in {j \in 1..Len(deleteCalls) : deleteCalls[j].st = "success"}}

ViewInit ==
    /\ SearchIdle /\ FormatIdle /\ StoreIdle /\ FormIdle /\ MailIdle
    /\ SelectIdle /\ SectionIdle /\ exported = <<>>
    /\ \E n \in 0..MaxViewRows : \E types \in [1..n -> RowTypes] :
          viewRows = [k \in 1..n |-> SavedRow(k, types[k])]
    /\ selectedIds = {}
    /\ filterType = "all"
    /\ deleteCalls = <<>>
    /\ isDeleting = FALSE

ViewFrame ==
    UNCHANGED <<functionVars, formatVars, storeVars, formVars, mailVars,
                selectVars, sectionVars>>

\* <Select value={filterType} onValueChange={setFilterType}>
setFilterType ==
    /\ \E type \in FilterTypes : type # filterType /\ filterType' = type
    /\ UNCHANGED <<viewRows, selectedIds, deleteCalls, isDeleting, exported>>
    /\ ViewFrame

\* handleSelectAll(checked) of the view, from the header checkbox
\* (checked={allSelected}) of the table, rendered when filteredIPIs has rows
SavedSelectAll ==
    /\ filteredIPIs # <<>>
    /\ selectedIds' =
          (IF ~(IdsOf(filteredIPIs) \subseteq selectedIds)
           THEN IdsOf(filteredIPIs) ELSE {})
    /\ UNCHANGED <<viewRows, filterType, deleteCalls, isDeleting, exported>>
    /\ ViewFrame

\* handleSelectOne(id, checked) of the view, from the checkbox of a row shown
SavedSelectOne(id) ==
    /\ id \in IdsOf(filteredIPIs)
    /\ selectedIds' =
          (IF id \notin selectedIds THEN selectedIds \cup {id}
           ELSE selectedIds \ {id})
    /\ UNCHANGED <<viewRows, filterType, deleteCalls, isDeleting, exported>>
    /\ ViewFrame

\* a faulty variant of handleDelete that sends the ids of the rows shown only
handleDeleteShown ==
    /\ selectedIds # {} /\ ~isDeleting
    /\ Len(deleteCalls) < MaxDeletes
    /\ deleteCalls' = Append(deleteCalls,
                             [ids |-> selectedIds \cap IdsOf(filteredIPIs),
                              st |-> "pending"])
    /\ isDeleting' = TRUE
    /\ selectedIds' = {}
    /\ UNCHANGED <<viewRows, filterType, exported>>
    /\ ViewFrame

\* handleDelete, from the Delete button
\* (disabled={selectedIds.size === 0 || isDeleting}):
\* deleteIPIs(Array.from(selectedIds)); setSelectedIds(new Set())
handleDelete ==
    /\ selectedIds # {} /\ ~isDeleting
    /\ Len(deleteCalls) < MaxDeletes
    /\ deleteCalls' = Append(deleteCalls, [ids |-> selectedIds, st |-> "pending"])
    /\ isDeleting' = TRUE
    /\ selectedIds' = {}
    /\ UNCHANGED <<viewRows, filterType, exported>>
    /\ ViewFrame

\* the delete mutation settles: onSuccess (the list is invalidated) or onError
DeleteSettles(outcome) ==
    /\ isDeleting
    /\ deleteCalls' = [deleteCalls EXCEPT ![Len(deleteCalls)].st = outcome]
    /\ isDeleting' = FALSE
    /\ UNCHANGED <<viewRows, selectedIds, filterType, exported>>
    /\ ViewFrame

\* the list fetched again after a delete: the rows deleted are gone
RowsRefetched ==
    /\ IdsOf(viewRows) \cap DeletedSoFar # {}
    /\ viewRows' = SelectSeq(viewRows, LAMBDA ipi : ipi.id \notin DeletedSoFar)
    /\ UNCHANGED <<selectedIds, filterType, deleteCalls, isDeleting, exported>>
    /\ ViewFrame

\* handleExportCSV and handleExportJSON, from buttons disabled when no row is
\* shown
handleExport(format) ==
    /\ filteredIPIs # <<>>
    /\ exported' = [format |-> format, data |-> dataToExport]
    /\ UNCHANGED <<viewRows, selectedIds, filterType, deleteCalls, isDeleting>>
    /\ ViewFrame

ViewNext ==
    \/ setFilterType
    \/ SavedSelectAll
    \/ \E id \in 1..MaxViewRows : SavedSelectOne(id)
    \/ handleDelete
    \/ \E outcome \in {"success", "error"} : DeleteSettles(outcome)
    \/ RowsRefetched
    \/ \E format \in {"csv", "json"} : handleExport(format)

SpecView == ViewInit /\ [][ViewNext]_vars

\* what a step of the view does to the selection
DeleteStep ==
    /\ Len(deleteCalls') > Len(deleteCalls) =>
          /\ deleteCalls' = Append(deleteCalls, [ids |-> selectedIds, st |-> "pending"])
          /\ selectedIds' = {}
    /\ filterType' # filterType => selectedIds' = selectedIds
    /\ (Len(deleteCalls') = Len(deleteCalls) /\ deleteCalls' # deleteCalls) =>
          selectedIds' = selectedIds

\* C28: Delete passes the ids of the whole selection to deleteIPIs, those of
\* the rows hidden by the type filter included, and empties the selection in
\* the same step; a change of the filter leaves the selection as it is, and so
\* does the end of the delete, with success or with an error.
DeleteSendsSelection == [][DeleteStep]_vars

\* C28 witness: with the filter on publishers, a delete that held the id of a
\* writer's row has failed; the row is still in the list and the selection is
\* empty.
HiddenIdSentAndFailed ==
    /\ deleteCalls # <<>> /\ filterType = "publisher" /\ selectedIds = {}
    /\ deleteCalls[Len(deleteCalls)].st = "error"
    /\ \E k \in 1..Len(viewRows) :
          /\ viewRows[k].type = "writer"
          /\ viewRows[k].id \in deleteCalls[Len(deleteCalls)].ids
    /\ \E k \in 1..Len(viewRows) :
          /\ viewRows[k].type = "publisher"
          /\ viewRows[k].id \in deleteCalls[Len(deleteCalls)].ids

====
